---- MODULE Spec2Model ----
(***************************************************************************)
(* Model of scripts/team_ops.py (codex-agent-teams).                       *)
(*                                                                         *)
(* Spec      : several processes run one mutating command each (claim)     *)
(*             through main -> team_state_lock, one system call per step.  *)
(* SpecLive  : Spec plus weak fairness of the steps of running processes.  *)
(* SpecDebate: the debate engine, one whole command per step (the commands *)
(*             as they run one after the other).                           *)
(* SpecScore : automatic decide on debates with up to MaxVotes positions   *)
(*             of three members over three options.                        *)
(* SpecClaim : claim, one whole command per step, on task boards with      *)
(*             tasks of every status and owner.                            *)
(* SpecLoad  : start-debate on stored debate boards whose next_id counter  *)
(*             is absent, stale or right.                                  *)
(* SpecTasks : add-task, claim, update-task and decide-debate --apply, one  *)
(*             whole command per step, with valid and invalid owners.      *)
(* SpecTeam  : init with and without --reset on a team directory whose     *)
(*             team.json is absent, unusable or usable, among add-task,    *)
(*             claim and start-debate.                                     *)
(* SpecRace  : two processes run one debate command each (orchestrate,     *)
(*             decide --apply, start-debate) through team_state_lock on a  *)
(*             board with a ready debate, one file access per step, with   *)
(*             appends and writes that may fail.                           *)
(* SpecWrite : write_json and load_json on one board file, one system call *)
(*             per step, with writers that fail or are killed.             *)
(* SpecLoop  : the orchestration loop on a debate: orchestrate-debate      *)
(*             again and again while the missing members add positions,    *)
(*             under weak fairness of both.                                *)
(* SpecDecided : the same loop with decide-debate without --apply, which   *)
(*             records manual decisions before the orchestration.          *)
(***************************************************************************)
EXTENDS Integers, Sequences, FiniteSets, TLC

\* ---------------------------------------------------------------- bounds
MaxTime == 4
MaxCrashes == 1
MaxPositions == 2
MaxMessages == 2
\* the number of positions of a scored debate
MaxVotes == 3
\* significant bits of a floating-point number
Precision == 2
\* the number of debates of a stored board
MaxRecords == 3
\* the number of write calls that carry the bytes of one document to its file
MaxChunks == 2
\* the number of notes of a task
MaxNotes == 2
\* lock wait budget and staleness threshold, in clock ticks
\* (TEAM_OPS_LOCK_WAIT_SECONDS / TEAM_OPS_LOCK_STALE_SECONDS, defaults 15 / 300)
LockWaitTicks == 1
LockStaleTicks == 2

\* ---------------------------------------------------------------- values
Procs == {"p1", "p2"}
\* a process of an earlier command, killed while it held the lock
Dead == "p0"
NoLock == [ino |-> "none", pid |-> "none", mtime |-> 0]
NoPid == "none"
UNASSIGNED_OWNER == "unassigned"
TeamMembers == {"alice", "bob"}
TaskIds == {"task-1", "task-2"}
MissingTaskId == "task-9"
NoBoard == [t \in {} |-> 0]
NoCmd == [task |-> "none", member |-> "none"]

VARIABLES
  now,        \* the clock (time.time / time.monotonic), in ticks
  lock,       \* the marker file at team_lock_path: inode, recorded pid, mtime
  alive,      \* which processes exist (os.kill(pid, 0) succeeds)
  pc,         \* position of each process in main / team_state_lock / cmd_claim
  start,      \* team_state_lock: start = time.monotonic()
  observed,   \* reclaim_stale_lock: inode of the first stat
  cmd,        \* the command line of each process
  loaded,     \* cmd_claim: the board returned by load_task_board
  tasks,      \* tasks.json
  crashes,    \* number of processes killed so far
  ranBody,    \* the processes whose guarded command body has started
  debateBoard, \* debates.json: the debates and the next-id counter
  messages,   \* messages.jsonl: the number of lines of each type
  printed,    \* the status line the last debate command printed to stdout
  disk,       \* the team directory: the file each name leads to, and the files' bytes
  handle,     \* the file each process holds open
  team        \* team.json: whether it is there and usable, the roster, the goal

vars == <<now, lock, alive, pc, start, observed, cmd, loaded, tasks, crashes, ranBody,
          debateBoard, messages, printed, disk, handle, team>>
lockVars == <<now, lock, alive, pc, start, observed, cmd, loaded, crashes, ranBody>>
debateVars == <<debateBoard, messages, printed>>
fileVars == <<disk, handle, team>>

\* ------------------------------------------------------- durable records
\* write_json / write_text_file: the file is replaced as a whole (os.replace)
write_json(file, payload) == payload

\* load_task_board: the tasks of tasks.json
load_task_board(file) == file

\* append_jsonl on messages.jsonl: the log as the number of lines of each type
NoMessages == [direct |-> 0, broadcast |-> 0]
append_messages(log, type, n) == [log EXCEPT ![type] = @ + n]

\* ------------------------------------------------------------------ files
NoFile == "none"
\* json.dumps: the bytes of the document of one version, in write-call chunks
Document(v) == [k \in 1..MaxChunks |-> v]
\* the team directory before the commands: the board file holds a whole
\* document, and no temporary file exists
StoredDisk ==
  [path |-> "old",
   temp |-> [p \in Procs |-> NoFile],
   bytes |-> [i \in {"old"} \cup Procs |-> IF i = "old" THEN Document("old") ELSE <<>>]]

\* team.json as init wrote it: the members in the order given, and the goal
StoredTeam == [state |-> "usable", members |-> <<"alice", "bob">>, goal |-> "g1"]

\* ------------------------------------------------------------ lock manager
\* read_lock_pid: the second line of the marker, None when the file is gone
\* or its content has not been written yet
read_lock_pid(l) == IF l = NoLock THEN NoPid ELSE l.pid

process_is_running_unreadable(pid) == IF pid = NoPid THEN TRUE ELSE alive[pid]

\* process_is_running: os.kill(pid, 0)
process_is_running(pid) == IF pid = NoPid THEN FALSE ELSE alive[pid]

Age(l) == now - l.mtime

\* main: a mutating command enters team_state_lock; start = time.monotonic()
Start(p) ==
  /\ pc[p] = "idle"
  /\ \E t \in TaskIds \cup {MissingTaskId}, m \in TeamMembers :
       cmd' = [cmd EXCEPT ![p] = [task |-> t, member |-> m]]
  /\ start' = [start EXCEPT ![p] = now]
  /\ pc' = [pc EXCEPT ![p] = "open"]
  /\ UNCHANGED <<now, lock, alive, observed, loaded, tasks, crashes, ranBody, debateBoard, messages, printed, disk, handle, team>>

\* team_state_lock: os.open(lock_path, O_CREAT | O_EXCL | O_WRONLY)
TryCreate(p) ==
  /\ pc[p] = "open"
  /\ IF lock = NoLock
       THEN /\ lock' = [ino |-> p, pid |-> NoPid, mtime |-> now]
            /\ pc' = [pc EXCEPT ![p] = "write"]
            /\ start' = [start EXCEPT ![p] = 0]
       ELSE /\ pc' = [pc EXCEPT ![p] = "stat1"]
            /\ UNCHANGED <<lock, start>>
  /\ UNCHANGED <<now, alive, observed, cmd, loaded, tasks, crashes, ranBody, debateBoard, messages, printed, disk, handle, team>>

\* reclaim_stale_lock: observed = lock_path.stat(); the age test
ReclaimStat(p) ==
  /\ pc[p] = "stat1"
  /\ IF lock = NoLock
       THEN /\ pc' = [pc EXCEPT ![p] = "check"]
            /\ UNCHANGED observed
       ELSE /\ observed' = [observed EXCEPT ![p] = lock.ino]
            /\ pc' = [pc EXCEPT ![p] =
                 IF Age(lock) <= LockStaleTicks THEN "check" ELSE "probe"]
  /\ UNCHANGED <<now, lock, alive, start, cmd, loaded, tasks, crashes, ranBody, debateBoard, messages, printed, disk, handle, team>>

\* reclaim_stale_lock: lock_pid = read_lock_pid(...); process_is_running(lock_pid)
ReclaimProbe(p) ==
  /\ pc[p] = "probe"
  /\ pc' = [pc EXCEPT ![p] =
       IF process_is_running(read_lock_pid(lock)) THEN "check" ELSE "stat2"]
  /\ UNCHANGED <<now, lock, alive, start, observed, cmd, loaded, tasks, crashes, ranBody, debateBoard, messages, printed, disk, handle, team>>

\* reclaim_stale_lock: current = lock_path.stat(); the inode/device comparison
ReclaimRestat(p) ==
  /\ pc[p] = "stat2"
  /\ pc' = [pc EXCEPT ![p] =
       IF lock = NoLock \/ lock.ino # observed[p] THEN "check" ELSE "unlink"]
  /\ UNCHANGED <<now, lock, alive, start, observed, cmd, loaded, tasks, crashes, ranBody, debateBoard, messages, printed, disk, handle, team>>

\* reclaim_stale_lock: lock_path.unlink(); True sends the caller back to os.open
ReclaimUnlink(p) ==
  /\ pc[p] = "unlink"
  /\ IF lock = NoLock
       THEN /\ pc' = [pc EXCEPT ![p] = "check"]
            /\ UNCHANGED lock
       ELSE /\ lock' = NoLock
            /\ pc' = [pc EXCEPT ![p] = "open"]
  /\ UNCHANGED <<now, alive, start, observed, cmd, loaded, tasks, crashes, ranBody, debateBoard, messages, printed, disk, handle, team>>

WaitCheck_continue(p) ==
  /\ pc[p] = "check"
  /\ pc' = [pc EXCEPT ![p] =
       IF (now - start[p]) >= LockWaitTicks THEN "load" ELSE "open"]
  /\ observed' = [observed EXCEPT ![p] = "none"]
  /\ UNCHANGED <<now, lock, alive, start, cmd, loaded, tasks, crashes, ranBody, debateBoard, messages, printed, disk, handle, team>>

\* team_state_lock: the wait budget test, then time.sleep(0.05) and retry
WaitCheck(p) ==
  /\ pc[p] = "check"
  /\ pc' = [pc EXCEPT ![p] =
       IF (now - start[p]) >= LockWaitTicks THEN "timeout" ELSE "open"]
  /\ observed' = [observed EXCEPT ![p] = "none"]
  /\ UNCHANGED <<now, lock, alive, start, cmd, loaded, tasks, crashes, ranBody, debateBoard, messages, printed, disk, handle, team>>

\* team_state_lock: handle.write(time, pid) through the descriptor of os.open;
\* the path shows it only while the path still names that file
WriteMarker(p) ==
  /\ pc[p] = "write"
  /\ lock' = IF lock # NoLock /\ lock.ino = p
               THEN [lock EXCEPT !.pid = p, !.mtime = now]
               ELSE lock
  /\ pc' = [pc EXCEPT ![p] = "load"]
  /\ ranBody' = ranBody \cup {p}
  /\ UNCHANGED <<now, alive, start, observed, cmd, loaded, tasks, crashes, debateBoard, messages, printed, disk, handle, team>>

claim_task_owner_only(task, member) == [task EXCEPT !.owner = member]

\* cmd_claim: the new record of the claimed task
claim_task(task, member) ==
  [task EXCEPT !.owner = member, !.status = "in_progress"]

\* cmd_claim: board = load_task_board(...); find_task; the completed test
ClaimLoad(p) ==
  /\ pc[p] = "load"
  /\ LET board == load_task_board(tasks) IN
       IF cmd[p].task \notin DOMAIN board \/ board[cmd[p].task].status = "completed"
         THEN /\ pc' = [pc EXCEPT ![p] = "release_err"]
              /\ UNCHANGED loaded
         ELSE /\ pc' = [pc EXCEPT ![p] = "store"]
              /\ loaded' = [loaded EXCEPT ![p] = board]
  /\ UNCHANGED <<now, lock, alive, start, observed, cmd, tasks, crashes, ranBody, debateBoard, messages, printed, disk, handle, team>>

\* cmd_claim: the task is updated in the loaded board; write_json(task_file, board)
ClaimStore(p) ==
  /\ pc[p] = "store"
  /\ tasks' = write_json(tasks,
       [loaded[p] EXCEPT ![cmd[p].task] = claim_task(@, cmd[p].member)])
  /\ loaded' = [loaded EXCEPT ![p] = NoBoard]
  /\ pc' = [pc EXCEPT ![p] = "release_ok"]
  /\ UNCHANGED <<now, lock, alive, start, observed, cmd, crashes, ranBody, debateBoard, messages, printed, disk, handle, team>>

Release_on_success(p) ==
  /\ pc[p] \in {"release_ok", "release_err"}
  /\ lock' = IF pc[p] = "release_ok" THEN NoLock ELSE lock
  /\ pc' = [pc EXCEPT ![p] = IF pc[p] = "release_ok" THEN "done" ELSE "failed"]
  /\ UNCHANGED <<now, alive, start, observed, cmd, loaded, tasks, crashes, ranBody, debateBoard, messages, printed, disk, handle, team>>

\* team_state_lock: finally: lock_path.unlink(), FileNotFoundError ignored
Release(p) ==
  /\ pc[p] \in {"release_ok", "release_err"}
  /\ lock' = NoLock
  /\ pc' = [pc EXCEPT ![p] = IF pc[p] = "release_ok" THEN "done" ELSE "failed"]
  /\ UNCHANGED <<now, alive, start, observed, cmd, loaded, tasks, crashes, ranBody, debateBoard, messages, printed, disk, handle, team>>

\* the process is killed while it holds the marker: nothing is released
Crash(p) ==
  /\ pc[p] \in {"write", "load", "store", "release_ok", "release_err"}
  /\ crashes < MaxCrashes
  /\ crashes' = crashes + 1
  /\ alive' = [alive EXCEPT ![p] = FALSE]
  /\ pc' = [pc EXCEPT ![p] = "crashed"]
  /\ loaded' = [loaded EXCEPT ![p] = NoBoard]
  /\ UNCHANGED <<now, lock, start, observed, cmd, tasks, ranBody, debateBoard, messages, printed, disk, handle, team>>

Tick ==
  /\ now < MaxTime
  /\ now' = now + 1
  /\ UNCHANGED <<lock, alive, pc, start, observed, cmd, loaded, tasks, crashes, ranBody, debateBoard, messages, printed, disk, handle, team>>

Step(p) ==
  \/ TryCreate(p)
  \/ ReclaimStat(p)
  \/ ReclaimProbe(p)
  \/ ReclaimRestat(p)
  \/ ReclaimUnlink(p)
  \/ WaitCheck(p)
  \/ WriteMarker(p)
  \/ ClaimLoad(p)
  \/ ClaimStore(p)
  \/ Release(p)

\* ------------------------------------------------------------ debate engine
Null == [null |-> TRUE]
\* the option strings in sorted() order
OptionOrder == <<"fast", "mid", "safe">>
\* confidence 1.0; confidences are in quarters
MaxConfidence == 4
Confidences == {0, MaxConfidence}
TASK_STATUSES == {"pending", "in_progress", "completed"}
Range(s) == {s[i] : i \in DOMAIN s}

\* float: a binary floating-point number keeps Precision significant bits;
\* Ulp(x) is the spacing of the representable numbers at x
RECURSIVE Ulp(_)
Ulp(x) == IF x < 2^Precision THEN 1 ELSE 2 * Ulp(x \div 2)

\* the representable number nearest to x, ties to the even significand
float_round(x) ==
  IF 2 * (x % Ulp(x)) < Ulp(x) THEN (x \div Ulp(x)) * Ulp(x)
  ELSE IF 2 * (x % Ulp(x)) > Ulp(x) THEN ((x \div Ulp(x)) + 1) * Ulp(x)
  ELSE IF (x \div Ulp(x)) % 2 = 0 THEN (x \div Ulp(x)) * Ulp(x)
  ELSE ((x \div Ulp(x)) + 1) * Ulp(x)

\* scores[option] += float(confidence)
float_add(x, y) == float_round(x + y)

\* find_debate: the index of the debate on the board, 0 when there is none
find_debate(board, debate_id) ==
  IF \E i \in DOMAIN board.debates : board.debates[i].id = debate_id
    THEN CHOOSE i \in DOMAIN board.debates : board.debates[i].id = debate_id
    ELSE 0

\* load_debate_board: the content of debates.json, next_id rebuilt from the
\* largest debate id when the stored one is not an integer >= 1
load_debate_board(file) ==
  IF file.next_id >= 1 THEN file
  ELSE LET ids == {file.debates[i].id : i \in DOMAIN file.debates}
       IN [file EXCEPT !.next_id =
             IF ids = {} THEN 1
             ELSE (CHOOSE x \in ids : \A y \in ids : y <= x) + 1]

\* latest_positions: the last position of each member, by append order
latest_positions(debate) ==
  LET ps == debate.positions
      last(m) == CHOOSE i \in DOMAIN ps :
                   /\ ps[i].member = m
                   /\ \A j \in DOMAIN ps : ps[j].member = m => j <= i
  IN [m \in {ps[i].member : i \in DOMAIN ps} |-> ps[last(m)]]

\* latest_positions: the keys of the dict in insertion order, which is the
\* order in which the members first appear in the positions
latest_order(debate) ==
  LET ps == debate.positions
      firsts == {i \in DOMAIN ps : \A j \in DOMAIN ps : j < i => ps[j].member # ps[i].member}
  IN [k \in 1..Cardinality(firsts) |->
        ps[CHOOSE i \in firsts : Cardinality({j \in firsts : j <= i}) = k].member]

\* choose_decision: the loop over latest.values() for one option, from the
\* k-th member on, acc the running score
RECURSIVE score_sum(_, _, _, _, _)
score_sum(latest, order, o, k, acc) ==
  IF k > Len(order) THEN acc
  ELSE score_sum(latest, order, o, k + 1,
         IF latest[order[k]].option = o
           THEN float_add(acc, latest[order[k]].confidence)
           ELSE acc)

\* choose_decision: the score of each option, the confidences of the latest
\* positions that name it added up in the order of latest.values()
option_scores(debate, latest) ==
  [o \in debate.options |-> score_sum(latest, latest_order(debate), o, 1, 0)]

top_options_lowest(debate, scores) ==
  {o \in debate.options : \A o2 \in debate.options : scores[o] <= scores[o2]}

\* choose_decision: the options whose score is the maximum
top_options(debate, scores) ==
  {o \in debate.options : \A o2 \in debate.options : scores[o2] <= scores[o]}

first_option_last(winners) ==
  OptionOrder[CHOOSE i \in DOMAIN OptionOrder :
                /\ OptionOrder[i] \in winners
                /\ \A j \in DOMAIN OptionOrder : OptionOrder[j] \in winners => j <= i]

\* choose_decision: sorted(winners)[0]
first_option(winners) ==
  OptionOrder[CHOOSE i \in DOMAIN OptionOrder :
                /\ OptionOrder[i] \in winners
                /\ \A j \in DOMAIN OptionOrder : OptionOrder[j] \in winners => i <= j]

select_option_guess(debate, latest, scores, winners) ==
  [ok |-> TRUE, option |-> first_option(winners), method |-> "tie_lexical",
   scores |-> scores]

\* choose_decision: the single winner, else the decider's pick among the
\* winners, else the first winner; ok is FALSE when it ends in SystemExit
select_option(debate, latest, scores, winners) ==
  IF DOMAIN latest = {} \/ \A o \in debate.options : scores[o] <= 0
    THEN [ok |-> FALSE, option |-> "none", method |-> "none", scores |-> scores]
  ELSE IF Cardinality(winners) = 1
    THEN [ok |-> TRUE, option |-> first_option(winners), method |-> "score",
          scores |-> scores]
  ELSE IF debate.decider \in DOMAIN latest /\ latest[debate.decider].option \in winners
    THEN [ok |-> TRUE, option |-> latest[debate.decider].option,
          method |-> "tie_decider", scores |-> scores]
  ELSE [ok |-> TRUE, option |-> first_option(winners), method |-> "tie_lexical",
        scores |-> scores]

score_positions(debate, latest, scores) ==
  select_option(debate, latest, scores, top_options(debate, scores))

choose_decision(debate) ==
  LET latest == latest_positions(debate)
  IN score_positions(debate, latest, option_scores(debate, latest))

validate_owner_map_options_only(owner_map, options, allowed_owners) ==
  DOMAIN owner_map \subseteq options

\* validate_owner_map: every key an option, every owner a team member or unassigned
validate_owner_map(owner_map, options, allowed_owners) ==
  /\ DOMAIN owner_map \subseteq options
  /\ \A o \in DOMAIN owner_map :
       owner_map[o] \in allowed_owners \cup {UNASSIGNED_OWNER}

\* resolve_new_debate_decider: the requested decider, or the first debate member
\* when the default "lead" is not on the team; "none" when it is rejected
resolve_new_debate_decider(requested_decider, debate_members) ==
  IF requested_decider \in TeamMembers /\ requested_decider \in Range(debate_members)
    THEN requested_decider
  ELSE IF /\ requested_decider = "lead"
          /\ "lead" \notin TeamMembers
          /\ debate_members # <<>>
          /\ debate_members[1] \in TeamMembers
    THEN debate_members[1]
  ELSE "none"

\* resolve_notify_sender: the requested sender if on the team, the fallback
\* for the default "lead", "none" when it is rejected
resolve_notify_sender(requested_sender, fallback_sender, required) ==
  IF ~required \/ requested_sender \in TeamMembers THEN requested_sender
  ELSE IF requested_sender = "lead" /\ fallback_sender \in TeamMembers
    THEN fallback_sender
  ELSE "none"

create_debate_any_task(board, task_id, options, members, decider) ==
  LET ok == /\ Cardinality(Range(options)) >= 2
            /\ Cardinality(Range(members)) >= 2
            /\ decider \in Range(members)
      debate == [id |-> board.next_id,
                 task_id |-> task_id,
                 options |-> Range(options),
                 members |-> Range(members),
                 decider |-> decider,
                 status |-> "open",
                 positions |-> <<>>,
                 decision |-> Null,
                 applied |-> Null]
  IN [ok |-> ok,
      id |-> board.next_id,
      board |-> IF ok
                  THEN [debates |-> Append(board.debates, debate),
                        next_id |-> board.next_id + 1]
                  ELSE board]

\* create_debate: the new debate record appended to the board, next_id advanced
create_debate(board, task_id, options, members, decider) ==
  LET ok == /\ Cardinality(Range(options)) >= 2
            /\ Cardinality(Range(members)) >= 2
            /\ decider \in Range(members)
            /\ (task_id # "none" => task_id \in DOMAIN load_task_board(tasks))
      debate == [id |-> board.next_id,
                 task_id |-> task_id,
                 options |-> Range(options),
                 members |-> Range(members),
                 decider |-> decider,
                 status |-> "open",
                 positions |-> <<>>,
                 decision |-> Null,
                 applied |-> Null]
  IN [ok |-> ok,
      id |-> board.next_id,
      board |-> IF ok
                  THEN [debates |-> Append(board.debates, debate),
                        next_id |-> board.next_id + 1]
                  ELSE board]

\* a command that returns without writing / that ends in SystemExit: the three
\* files as they are
no_change(board, line) ==
  [ok |-> TRUE, board |-> board, tasks |-> tasks, messages |-> messages,
   printed |-> line]
system_exit(board) ==
  [ok |-> FALSE, board |-> board, tasks |-> tasks, messages |-> messages,
   printed |-> printed]

applied_owner_kept(task, selected_option, owner_map) == task.owner

\* apply_decision_to_task: the owner written to the task
applied_owner(task, selected_option, owner_map) ==
  IF selected_option \in DOMAIN owner_map
    THEN owner_map[selected_option] ELSE task.owner

apply_decision_to_task_unlinked(debate, selected_option, selected_status, owner_map, applied_by, sender) ==
  IF debate.applied # Null
    THEN [ok |-> TRUE, debate |-> debate, tasks |-> tasks, messages |-> messages]
  ELSE IF selected_status \notin TASK_STATUSES
    THEN [ok |-> FALSE, debate |-> debate, tasks |-> tasks, messages |-> messages]
  ELSE [ok |-> TRUE,
        debate |-> [debate EXCEPT
                      !.status = "applied",
                      !.applied = [by |-> applied_by, task_id |-> debate.task_id,
                                   status |-> selected_status,
                                   owner |-> UNASSIGNED_OWNER,
                                   option |-> selected_option]],
        tasks |-> tasks,
        messages |-> append_messages(messages, "broadcast", 1)]

\* apply_decision_to_task: the task update, the applied record and the broadcast
apply_decision_to_task(debate, selected_option, selected_status, owner_map, applied_by, sender) ==
  LET task_board == load_task_board(tasks)
  IN IF debate.task_id = "none" \/ debate.applied # Null
       THEN [ok |-> TRUE, debate |-> debate, tasks |-> tasks, messages |-> messages]
     ELSE IF selected_status \notin TASK_STATUSES
             \/ debate.task_id \notin DOMAIN task_board
       THEN [ok |-> FALSE, debate |-> debate, tasks |-> tasks, messages |-> messages]
     ELSE [ok |-> TRUE,
           debate |-> [debate EXCEPT
                         !.status = "applied",
                         !.applied =
                           [by |-> applied_by,
                            task_id |-> debate.task_id,
                            status |-> selected_status,
                            owner |-> applied_owner(task_board[debate.task_id],
                                                    selected_option, owner_map),
                            option |-> selected_option]],
           tasks |-> write_json(tasks,
                       [task_board EXCEPT
                          ![debate.task_id] =
                            [owner |-> applied_owner(@, selected_option, owner_map),
                             status |-> selected_status,
                             notes |-> Append(@.notes,
                                              [debate |-> debate.id,
                                               option |-> selected_option])]]),
           messages |-> append_messages(messages, "broadcast", 1)]

Missing(debate) == debate.members \ DOMAIN latest_positions(debate)

already_applied_ignored(debate) == FALSE

\* cmd_decide_debate / cmd_orchestrate_debate: the early return on an applied debate
already_applied(debate) == debate.status = "applied"

new_decision_lenient(debate, a, auto) ==
  [ok |-> /\ a.rationale # "none"
          /\ (a.decision # "none" => a.decision \in debate.options)
          /\ (a.decision = "none" => auto.ok),
   recorded |-> TRUE,
   selected |-> IF a.decision # "none" THEN a.decision ELSE auto.option,
   decision |-> [decider |-> debate.decider,
                 option |-> IF a.decision # "none" THEN a.decision ELSE auto.option,
                 method |-> IF a.decision # "none" THEN "manual" ELSE auto.method,
                 scores |-> IF a.decision # "none" THEN [o \in debate.options |-> 0]
                            ELSE auto.scores,
                 rationale |-> a.rationale]]

\* cmd_decide_debate on an open debate: the manual option or the automatic
\* choice, recorded as the decision
new_decision(debate, a, auto) ==
  [ok |-> /\ a.rationale # "none"
          /\ (a.decision # "none" => a.decision \in debate.options)
          /\ (a.decision = "none" => auto.ok)
          /\ (a.require_all => Missing(debate) = {}),
   recorded |-> TRUE,
   selected |-> IF a.decision # "none" THEN a.decision ELSE auto.option,
   decision |-> [decider |-> debate.decider,
                 option |-> IF a.decision # "none" THEN a.decision ELSE auto.option,
                 method |-> IF a.decision # "none" THEN "manual" ELSE auto.method,
                 scores |-> IF a.decision # "none" THEN [o \in debate.options |-> 0]
                            ELSE auto.scores,
                 rationale |-> a.rationale]]

decide_selection_recomputed(debate, a) ==
  new_decision(debate, a, choose_decision(debate))

\* cmd_decide_debate: the selected option; the recorded decision of a decided
\* debate is reused, an open debate gets a new one
decide_selection(debate, a) ==
  IF debate.status = "decided"
    THEN [ok |-> /\ debate.decision # Null
                 /\ debate.decision.option \in debate.options
                 /\ (a.decision # "none" => a.decision = debate.decision.option)
                 /\ (a.require_all => Missing(debate) = {}),
          recorded |-> FALSE,
          selected |-> debate.decision.option,
          decision |-> debate.decision]
    ELSE new_decision(debate, a, choose_decision(debate))

\* cmd_decide_debate / cmd_orchestrate_debate: write_json of the board after
\* apply_decision_to_task
write_applied(board, i, applied, line) ==
  IF ~applied.ok THEN system_exit(board)
  ELSE [ok |-> TRUE,
        board |-> write_json(board, [board EXCEPT !.debates[i] = applied.debate]),
        tasks |-> applied.tasks,
        messages |-> applied.messages,
        printed |-> line]

\* cmd_decide_debate from "if args.apply" on: decided is the debate in memory
decide_apply(board, a, i, decided, selected, effective_decider, notify_sender, line) ==
  IF ~a.apply
    THEN [ok |-> TRUE,
          board |-> write_json(board, [board EXCEPT !.debates[i] = decided]),
          tasks |-> tasks, messages |-> messages, printed |-> line]
  ELSE IF notify_sender = "none" THEN system_exit(board)
  ELSE write_applied(board, i,
         apply_decision_to_task(decided, selected, a.status_on_apply,
                                a.owner_map, effective_decider, notify_sender),
         line)

decide_selected_status_kept(board, a, i, debate, effective_decider, sel) ==
  IF ~sel.ok THEN system_exit(board)
  ELSE IF ~sel.recorded /\ ~a.apply THEN no_change(board, "already_decided")
  ELSE decide_apply(board, a, i,
         IF sel.recorded THEN [debate EXCEPT !.decision = sel.decision] ELSE debate,
         sel.selected, effective_decider,
         resolve_notify_sender("lead", effective_decider,
                               debate.task_id # "none" /\ debate.applied = Null),
         IF sel.recorded THEN "decided" ELSE "applied_existing")

\* cmd_decide_debate from the status branch on: sel is the selection
decide_selected(board, a, i, debate, effective_decider, sel) ==
  IF ~sel.ok THEN system_exit(board)
  ELSE IF ~sel.recorded /\ ~a.apply THEN no_change(board, "already_decided")
  ELSE decide_apply(board, a, i,
         IF sel.recorded
           THEN [debate EXCEPT !.decision = sel.decision, !.status = "decided"]
           ELSE debate,
         sel.selected, effective_decider,
         resolve_notify_sender("lead", effective_decider,
                               debate.task_id # "none" /\ debate.applied = Null),
         IF sel.recorded THEN "decided" ELSE "applied_existing")

\* cmd_decide_debate on the debate it found: the applied return, the owner map
\* and the decider checks
decide_found(board, a, i, debate, effective_decider) ==
  IF already_applied(debate) THEN no_change(board, "already_applied")
  ELSE IF a.apply /\ debate.task_id # "none"
          /\ ~validate_owner_map(a.owner_map, debate.options, TeamMembers)
    THEN system_exit(board)
  ELSE IF \/ effective_decider \notin TeamMembers
          \/ effective_decider \notin debate.members
          \/ effective_decider # debate.decider
    THEN system_exit(board)
  ELSE decide_selected(board, a, i, debate, effective_decider,
                       decide_selection(debate, a))

\* cmd_decide_debate: what the command leaves in debates.json, tasks.json and
\* messages.jsonl; ok is FALSE when it ends in SystemExit
decide_debate(board, a) ==
  LET i == find_debate(board, a.debate_id)
  IN IF i = 0 THEN system_exit(board)
     ELSE decide_found(board, a, i, board.debates[i],
            IF a.decider # "none" THEN a.decider ELSE board.debates[i].decider)

\* cmd_start_debate / cmd_orchestrate_debate: member and shape checks, the
\* decider, then create_debate
new_debate(board, a) ==
  IF /\ Range(a.members) \subseteq TeamMembers
     /\ Cardinality(Range(a.options)) >= 2
     /\ Cardinality(Range(a.members)) >= 2
     /\ resolve_new_debate_decider(a.decider, a.members) # "none"
    THEN create_debate(board, a.task_id, a.options, a.members,
                       resolve_new_debate_decider(a.decider, a.members))
    ELSE [ok |-> FALSE, id |-> board.next_id, board |-> board]

\* cmd_start_debate after create_debate: the write and the notices
start_created(board, a, created, notify_sender) ==
  IF ~created.ok \/ notify_sender = "none"
    THEN [ok |-> FALSE, board |-> board, messages |-> messages,
          printed |-> printed]
  ELSE [ok |-> TRUE,
        board |-> write_json(board, created.board),
        printed |-> "started",
        messages |-> IF a.notify
                       THEN append_messages(messages, "direct",
                                            Cardinality(Range(a.members)))
                       ELSE messages]

\* cmd_start_debate: the board and the message log it leaves
start_debate(board, a) ==
  start_created(board, a, new_debate(board, a),
    resolve_notify_sender("lead",
      resolve_new_debate_decider(a.decider, a.members), a.notify))

add_position_any_status(board, a) ==
  LET i == find_debate(board, a.debate_id)
  IN IF a.member \notin TeamMembers \/ a.confidence < 0
        \/ a.confidence > MaxConfidence
       THEN [ok |-> FALSE, board |-> board, printed |-> printed]
     ELSE IF i = 0 THEN [ok |-> FALSE, board |-> board, printed |-> printed]
     ELSE IF a.member \notin board.debates[i].members
             \/ a.option \notin board.debates[i].options
       THEN [ok |-> FALSE, board |-> board, printed |-> printed]
     ELSE [ok |-> TRUE,
           printed |-> "recorded",
           board |-> write_json(board,
             [board EXCEPT !.debates[i].positions =
                Append(@, [member |-> a.member, option |-> a.option,
                           confidence |-> a.confidence])])]

\* cmd_add_position: the board it leaves
add_position(board, a) ==
  LET i == find_debate(board, a.debate_id)
  IN IF a.member \notin TeamMembers \/ a.confidence < 0
        \/ a.confidence > MaxConfidence
       THEN [ok |-> FALSE, board |-> board, printed |-> printed]
     ELSE IF i = 0 THEN [ok |-> FALSE, board |-> board, printed |-> printed]
     ELSE IF board.debates[i].status # "open"
       THEN [ok |-> FALSE, board |-> board, printed |-> printed]
     ELSE IF a.member \notin board.debates[i].members
             \/ a.option \notin board.debates[i].options
       THEN [ok |-> FALSE, board |-> board, printed |-> printed]
     ELSE [ok |-> TRUE,
           printed |-> "recorded",
           board |-> write_json(board,
             [board EXCEPT !.debates[i].positions =
                Append(@, [member |-> a.member, option |-> a.option,
                           confidence |-> a.confidence])])]

\* cmd_orchestrate_debate from the decision on: the option check, the owner
\* map, the sender, apply_decision_to_task and the write
orchestrate_apply(board, a, i, decided) ==
  IF decided.decision.option \notin decided.options THEN system_exit(board)
  ELSE IF decided.task_id # "none"
          /\ ~validate_owner_map(a.owner_map, decided.options, TeamMembers)
    THEN system_exit(board)
  ELSE IF resolve_notify_sender("lead", decided.decider,
            decided.task_id # "none" /\ decided.applied = Null) = "none"
    THEN system_exit(board)
  ELSE write_applied(board, i,
         apply_decision_to_task(decided, decided.decision.option,
           a.status_on_apply, a.owner_map, decided.decider,
           resolve_notify_sender("lead", decided.decider,
             decided.task_id # "none" /\ decided.applied = Null)),
         "orchestrated")

\* cmd_orchestrate_debate: the automatic decision of a debate that has none
orchestrate_decide(board, a, i, debate, auto) ==
  IF ~auto.ok THEN system_exit(board)
  ELSE orchestrate_apply(board, a, i,
         [debate EXCEPT
            !.decision = [decider |-> debate.decider,
                          option |-> auto.option,
                          method |-> auto.method,
                          scores |-> auto.scores,
                          rationale |-> "auto"],
            !.status = "decided"])

orchestrate_found_eager(board, a, i, debate, missing) ==
  IF already_applied(debate) THEN no_change(board, "already_applied")
  ELSE IF debate.decider \notin debate.members \/ debate.decider \notin TeamMembers
    THEN system_exit(board)
  ELSE IF debate.decision = Null
    THEN CHOOSE r \in {orchestrate_decide(board, a, i, debate, auto) :
                         auto \in {choose_decision(debate)}} : TRUE
  ELSE orchestrate_apply(board, a, i, debate)

\* cmd_orchestrate_debate on the debate it created or found: the applied
\* return, the decider checks, the wait for missing positions, and the one
\* call of choose_decision whose result (auto) the decision is built from
orchestrate_found(board, a, i, debate, missing) ==
  IF already_applied(debate) THEN no_change(board, "already_applied")
  ELSE IF debate.decider \notin debate.members \/ debate.decider \notin TeamMembers
    THEN system_exit(board)
  ELSE IF missing # {}
    THEN IF ~a.send_reminders THEN no_change(board, "waiting")
         ELSE IF resolve_notify_sender("lead", debate.decider, TRUE) = "none"
           THEN system_exit(board)
         ELSE [ok |-> TRUE, board |-> board, tasks |-> tasks,
               messages |-> append_messages(messages, "direct",
                                            Cardinality(missing)),
               printed |-> "waiting"]
  ELSE IF debate.decision = Null
    THEN CHOOSE r \in {orchestrate_decide(board, a, i, debate, auto) :
                         auto \in {choose_decision(debate)}} : TRUE
  ELSE orchestrate_apply(board, a, i, debate)

\* cmd_orchestrate_debate on the board after the optional creation
orchestrate_board(board, a, debate_id) ==
  LET i == find_debate(board, debate_id)
  IN IF i = 0 THEN system_exit(board)
     ELSE orchestrate_found(board, a, i, board.debates[i],
                            Missing(board.debates[i]))

\* cmd_orchestrate_debate: create or load, wait and remind, decide, apply
orchestrate_created(board, a, created) ==
  IF ~created.ok THEN system_exit(board)
  ELSE orchestrate_board(write_json(board, created.board), a, created.id)

orchestrate_debate(board, a) ==
  IF a.debate_id = 0 THEN orchestrate_created(board, a, new_debate(board, a))
  ELSE orchestrate_board(board, a, a.debate_id)

\* cmd_decide_debate: log_event "debate.decided" is reached; the command has
\* passed its checks and has recorded a new decision on the board in memory
decide_logs_decided(board, a) ==
  /\ find_debate(board, a.debate_id) # 0
  /\ \E debate \in {board.debates[find_debate(board, a.debate_id)]} :
       /\ ~already_applied(debate)
       /\ ~(/\ a.apply /\ debate.task_id # "none"
            /\ ~validate_owner_map(a.owner_map, debate.options, TeamMembers))
       /\ \E effective_decider \in
              {IF a.decider # "none" THEN a.decider ELSE debate.decider} :
            /\ effective_decider \in TeamMembers
            /\ effective_decider \in debate.members
            /\ effective_decider = debate.decider
       /\ \E sel \in {decide_selection(debate, a)} : sel.ok /\ sel.recorded

\* cmd_orchestrate_debate --debate-id: log_event "debate.decided" is reached;
\* all positions are in and the automatic decision was recorded in memory
orchestrate_logs_decided(board, a) ==
  /\ a.debate_id # 0
  /\ find_debate(board, a.debate_id) # 0
  /\ \E debate \in {board.debates[find_debate(board, a.debate_id)]} :
       /\ ~already_applied(debate)
       /\ debate.decider \in debate.members
       /\ debate.decider \in TeamMembers
       /\ Missing(debate) = {}
       /\ debate.decision = Null
       /\ choose_decision(debate).ok

NewTask == [owner |-> UNASSIGNED_OWNER, status |-> "pending", notes |-> <<>>]

\* the marker a killed command leaves: with or without its content
LeftoverLocks ==
  {[ino |-> Dead, pid |-> pid, mtime |-> 0] : pid \in {Dead, NoPid}}


Init ==
  /\ now = 0
  /\ lock \in {NoLock} \cup LeftoverLocks
  /\ alive = [p \in Procs \cup {Dead} |-> p # Dead]
  /\ pc = [p \in Procs |-> "idle"]
  /\ start = [p \in Procs |-> 0]
  /\ observed = [p \in Procs |-> "none"]
  /\ cmd = [p \in Procs |-> NoCmd]
  /\ loaded = [p \in Procs |-> NoBoard]
  /\ tasks = [t \in TaskIds |-> NewTask]
  /\ crashes = 0
  /\ ranBody = {}
  /\ debateBoard = [debates |-> <<>>, next_id |-> 1]
  /\ messages = NoMessages
  /\ printed = "none"
  /\ disk = StoredDisk
  /\ handle = [p \in Procs |-> NoFile]
  /\ team = StoredTeam

Next ==
  \/ \E p \in Procs : Start(p)
  \/ \E p \in Procs : Step(p)
  \/ \E p \in Procs : Crash(p)
  \/ Tick

Spec == Init /\ [][Next]_vars

SpecLive == Spec /\ \A p \in Procs : WF_vars(Step(p))

\* ------------------------------------------------ debate commands, one per step
\* --owner-map and --status-on-apply of a command line
ApplyOptions ==
  { [status_on_apply |-> "in_progress", owner_map |-> <<>>],
    [status_on_apply |-> "completed", owner_map |-> [o \in {"fast"} |-> "bob"]],
    [status_on_apply |-> "in_progress",
     owner_map |-> [o \in {"safe"} |-> UNASSIGNED_OWNER]],
    [status_on_apply |-> "bogus", owner_map |-> <<>>],
    [status_on_apply |-> "in_progress",
     owner_map |-> [o \in {"fast"} |-> "mallory"]] }
NewDebateArgs ==
  [task_id : {"none", "task-1", MissingTaskId},
   options : {<<"fast", "safe">>, <<"fast", "fast">>},
   members : {<<"bob", "alice">>, <<"bob", "mallory">>},
   decider : {"lead", "bob", "mallory"}]
\* the debate ids the commands name; the board holds no other debate
DebateIds == {1}

StartArgs ==
  {[task_id |-> n.task_id, options |-> n.options, members |-> n.members,
    decider |-> n.decider, notify |-> b] : n \in NewDebateArgs, b \in BOOLEAN}

PositionArgs ==
  [debate_id : DebateIds, member : TeamMembers, option : {"fast", "safe"},
   confidence : Confidences]
  \cup
  {[debate_id |-> i, member |-> "mallory", option |-> "fast", confidence |-> 1] :
     i \in DebateIds}
  \cup
  {[debate_id |-> i, member |-> "alice", option |-> "other", confidence |-> 1] :
     i \in DebateIds}
  \cup
  {[debate_id |-> i, member |-> "alice", option |-> "fast",
    confidence |-> MaxConfidence + 1] : i \in DebateIds}

DecideArgs ==
  {[debate_id |-> i, decider |-> "none", decision |-> o, rationale |-> "r1",
    require_all |-> q, apply |-> FALSE,
    status_on_apply |-> "in_progress", owner_map |-> <<>>] :
     i \in DebateIds, o \in {"none", "fast", "safe"}, q \in BOOLEAN}
  \cup
  {[debate_id |-> i, decider |-> "none", decision |-> o, rationale |-> "r1",
    require_all |-> FALSE, apply |-> TRUE,
    status_on_apply |-> x.status_on_apply, owner_map |-> x.owner_map] :
     i \in DebateIds, o \in {"none", "fast", "safe"}, x \in ApplyOptions}
  \cup
  {[debate_id |-> i, decider |-> d, decision |-> "none", rationale |-> r,
    require_all |-> FALSE, apply |-> FALSE,
    status_on_apply |-> "in_progress", owner_map |-> <<>>] :
     i \in DebateIds, d \in {"none", "bob"}, r \in {"none", "r2"}}
  \cup
  {[debate_id |-> i, decider |-> "none", decision |-> o, rationale |-> "r1",
    require_all |-> TRUE, apply |-> TRUE,
    status_on_apply |-> "in_progress", owner_map |-> <<>>] :
     i \in DebateIds, o \in {"none", "fast"}}

OrchestrateArgs ==
  {[debate_id |-> 0, task_id |-> n.task_id, options |-> n.options,
    members |-> n.members, decider |-> n.decider,
    status_on_apply |-> "in_progress", owner_map |-> <<>>,
    send_reminders |-> b] : n \in NewDebateArgs, b \in BOOLEAN}
  \cup
  {[debate_id |-> i, task_id |-> "none", options |-> <<>>, members |-> <<>>,
    decider |-> "lead",
    status_on_apply |-> x.status_on_apply, owner_map |-> x.owner_map,
    send_reminders |-> b] : i \in DebateIds, x \in ApplyOptions, b \in BOOLEAN}

WithinBounds(board, msgs) ==
  /\ \A i \in DOMAIN board.debates : board.debates[i].id \in DebateIds
  /\ \A i \in DOMAIN board.debates : Len(board.debates[i].positions) <= MaxPositions
  /\ msgs.direct + msgs.broadcast <= MaxMessages

cmd_start_debate ==
  /\ debateBoard.next_id \in DebateIds
  /\ \E a \in StartArgs :
    \E r \in {start_debate(load_debate_board(debateBoard), a)} :
      /\ WithinBounds(r.board, r.messages)
      /\ debateBoard' = r.board
      /\ messages' = r.messages
      /\ printed' = r.printed
      /\ UNCHANGED <<tasks, lockVars, fileVars>>

cmd_add_position ==
  \E a \in PositionArgs :
    \E r \in {add_position(load_debate_board(debateBoard), a)} :
      /\ WithinBounds(r.board, messages)
      /\ debateBoard' = r.board
      /\ printed' = r.printed
      /\ UNCHANGED <<tasks, messages, lockVars, fileVars>>

cmd_decide_debate ==
  \E a \in DecideArgs :
    \E r \in {decide_debate(load_debate_board(debateBoard), a)} :
      /\ WithinBounds(r.board, r.messages)
      /\ debateBoard' = r.board
      /\ tasks' = r.tasks
      /\ messages' = r.messages
      /\ printed' = r.printed
      /\ UNCHANGED <<lockVars, fileVars>>

cmd_orchestrate_debate ==
  \E a \in {x \in OrchestrateArgs :
             x.debate_id = 0 => debateBoard.next_id \in DebateIds} :
    \E r \in {orchestrate_debate(load_debate_board(debateBoard), a)} :
      /\ WithinBounds(r.board, r.messages)
      /\ debateBoard' = r.board
      /\ tasks' = r.tasks
      /\ messages' = r.messages
      /\ printed' = r.printed
      /\ UNCHANGED <<lockVars, fileVars>>

InitDebate == Init /\ lock = NoLock

NextDebate ==
  \/ cmd_start_debate
  \/ cmd_add_position
  \/ cmd_decide_debate
  \/ cmd_orchestrate_debate

SpecDebate == InitDebate /\ [][NextDebate]_vars




\* --------------------------------------- scoring: choose_decision on its inputs
\* a debate of three members over three options, decider bob, no linked task
ScoreMembers == {"alice", "bob", "carol"}
ScoreOptions == {"fast", "mid", "safe"}
\* the confidences each member passes: 0.5 and 0.75
ScoreConfidences == [alice |-> {2, 3}, bob |-> {2}, carol |-> {3}]
ScorePositions ==
  UNION {[member : {m}, option : ScoreOptions, confidence : ScoreConfidences[m]] :
           m \in ScoreMembers}
ScoreInputs == UNION {[1..n -> ScorePositions] : n \in 0..MaxVotes}

ScoreDebate(positions) ==
  [id |-> 1, task_id |-> "none", options |-> ScoreOptions,
   members |-> ScoreMembers, decider |-> "bob", status |-> "open",
   positions |-> positions, decision |-> Null, applied |-> Null]

InitScore ==
  /\ now = 0
  /\ lock = NoLock
  /\ alive = [p \in Procs \cup {Dead} |-> p # Dead]
  /\ pc = [p \in Procs |-> "idle"]
  /\ start = [p \in Procs |-> 0]
  /\ observed = [p \in Procs |-> "none"]
  /\ cmd = [p \in Procs |-> NoCmd]
  /\ loaded = [p \in Procs |-> NoBoard]
  /\ tasks = [t \in TaskIds |-> NewTask]
  /\ crashes = 0
  /\ ranBody = {}
  /\ \E positions \in ScoreInputs :
       debateBoard = [debates |-> <<ScoreDebate(positions)>>, next_id |-> 2]
  /\ messages = NoMessages
  /\ printed = "none"
  /\ disk = StoredDisk
  /\ handle = [p \in Procs |-> NoFile]
  /\ team = StoredTeam

\* decide-debate without --decision: the automatic decision is recorded
cmd_decide_automatic ==
  \E a \in {x \in DecideArgs : /\ x.decision = "none" /\ x.decider = "none"
                             /\ x.rationale = "r1"
                             /\ ~x.require_all /\ ~x.apply} :
    \E r \in {decide_debate(load_debate_board(debateBoard), a)} :
      /\ debateBoard' = r.board
      /\ tasks' = r.tasks
      /\ messages' = r.messages
      /\ printed' = r.printed
      /\ UNCHANGED <<lockVars, fileVars>>

NextScore == cmd_decide_automatic

SpecScore == InitScore /\ [][NextScore]_vars


\* ------------------------------------------------------- claim, sequential
ClaimArgs == [task : TaskIds \cup {MissingTaskId}, member : TeamMembers \cup {"mallory"}]

\* cmd_claim: what the command leaves in tasks.json; ok is FALSE when it ends
\* in SystemExit
claim(board, a) ==
  IF a.member \notin TeamMembers
    THEN [ok |-> FALSE, tasks |-> tasks, printed |-> printed]
  ELSE IF a.task \notin DOMAIN board \/ board[a.task].status = "completed"
    THEN [ok |-> FALSE, tasks |-> tasks, printed |-> printed]
  ELSE [ok |-> TRUE,
        tasks |-> write_json(tasks, [board EXCEPT ![a.task] = claim_task(@, a.member)]),
        printed |-> "claimed"]

\* the task boards add-task and update-task can leave
TaskBoards ==
  [TaskIds -> [owner : TeamMembers \cup {UNASSIGNED_OWNER}, status : TASK_STATUSES,
               notes : {<<>>}]]

InitClaim ==
  /\ now = 0
  /\ lock = NoLock
  /\ alive = [p \in Procs \cup {Dead} |-> p # Dead]
  /\ pc = [p \in Procs |-> "idle"]
  /\ start = [p \in Procs |-> 0]
  /\ observed = [p \in Procs |-> "none"]
  /\ cmd = [p \in Procs |-> NoCmd]
  /\ loaded = [p \in Procs |-> NoBoard]
  /\ tasks \in TaskBoards
  /\ crashes = 0
  /\ ranBody = {}
  /\ debateBoard = [debates |-> <<>>, next_id |-> 1]
  /\ messages = NoMessages
  /\ printed = "none"
  /\ disk = StoredDisk
  /\ handle = [p \in Procs |-> NoFile]
  /\ team = StoredTeam

cmd_claim ==
  \E a \in ClaimArgs :
    \E r \in {claim(load_task_board(tasks), a)} :
      /\ tasks' = r.tasks
      /\ printed' = r.printed
      /\ UNCHANGED <<debateBoard, messages, lockVars, fileVars>>

NextClaim == cmd_claim

SpecClaim == InitClaim /\ [][NextClaim]_vars

\* ------------------------------------------ start-debate on stored boards
\* the debate of the given id as create_debate wrote it
StoredDebate(id) ==
  [id |-> id, task_id |-> "none", options |-> {"fast", "safe"},
   members |-> {"alice", "bob"}, decider |-> "bob", status |-> "open",
   positions |-> <<>>, decision |-> Null, applied |-> Null]

\* the debates of the given ids in the order of their creation
StoredDebates(ids) ==
  [k \in 1..Cardinality(ids) |->
     StoredDebate(CHOOSE i \in ids : Cardinality({j \in ids : j <= i}) = k)]

\* debates.json as found on disk: any debates, and a next_id that is absent
\* or not a positive integer (0), stale or right
StoredBoards ==
  {[debates |-> StoredDebates(ids), next_id |-> n] :
     ids \in SUBSET (1..MaxRecords), n \in 0..(MaxRecords + 1)}

InitLoad ==
  /\ now = 0
  /\ lock = NoLock
  /\ alive = [p \in Procs \cup {Dead} |-> p # Dead]
  /\ pc = [p \in Procs |-> "idle"]
  /\ start = [p \in Procs |-> 0]
  /\ observed = [p \in Procs |-> "none"]
  /\ cmd = [p \in Procs |-> NoCmd]
  /\ loaded = [p \in Procs |-> NoBoard]
  /\ tasks = [t \in TaskIds |-> NewTask]
  /\ crashes = 0
  /\ ranBody = {}
  /\ debateBoard \in StoredBoards
  /\ messages = NoMessages
  /\ printed = "none"
  /\ disk = StoredDisk
  /\ handle = [p \in Procs |-> NoFile]
  /\ team = StoredTeam

\* start-debate without notices on the stored board
cmd_start_debate_stored ==
  /\ Len(debateBoard.debates) <= MaxRecords
  /\ \E a \in {x \in StartArgs : ~x.notify} :
       \E r \in {start_debate(load_debate_board(debateBoard), a)} :
         /\ debateBoard' = r.board
         /\ messages' = r.messages
         /\ printed' = r.printed
         /\ UNCHANGED <<tasks, lockVars, fileVars>>

NextLoad == cmd_start_debate_stored

SpecLoad == InitLoad /\ [][NextLoad]_vars

\* ------------------------------------------------ the orchestration loop
\* add-position by a member of the debate who has no position yet
cmd_add_missing_position ==
  \E a \in PositionArgs :
    /\ \E debate \in Range(debateBoard.debates) :
         debate.id = a.debate_id /\ a.member \in Missing(debate)
    /\ \E r \in {add_position(load_debate_board(debateBoard), a)} :
         /\ debateBoard' = r.board
         /\ printed' = r.printed
         /\ UNCHANGED <<tasks, messages, lockVars, fileVars>>

\* orchestrate-debate --debate-id on the debate, without reminders
cmd_orchestrate_again ==
  \E a \in {x \in OrchestrateArgs : x.debate_id \in DebateIds /\ ~x.send_reminders} :
    \E r \in {orchestrate_debate(load_debate_board(debateBoard), a)} :
      /\ debateBoard' = r.board
      /\ tasks' = r.tasks
      /\ messages' = r.messages
      /\ printed' = r.printed
      /\ UNCHANGED <<lockVars, fileVars>>

NextLoop ==
  \/ cmd_start_debate
  \/ cmd_add_missing_position
  \/ cmd_orchestrate_again

SpecLoop ==
  /\ InitDebate
  /\ [][NextLoop]_vars
  /\ WF_vars(cmd_add_missing_position)
  /\ WF_vars(cmd_orchestrate_again)

\* ------------------------------------- orchestration after a manual decision
\* decide-debate without --apply
cmd_decide_only ==
  \E a \in {x \in DecideArgs : ~x.apply} :
    \E r \in {decide_debate(load_debate_board(debateBoard), a)} :
      /\ debateBoard' = r.board
      /\ tasks' = r.tasks
      /\ messages' = r.messages
      /\ printed' = r.printed
      /\ UNCHANGED <<lockVars, fileVars>>

NextDecided ==
  \/ cmd_start_debate
  \/ cmd_add_missing_position
  \/ cmd_decide_only
  \/ cmd_orchestrate_again

\* the members keep submitting their missing positions and orchestrate-debate
\* is invoked again and again
SpecDecided ==
  /\ InitDebate
  /\ [][NextDecided]_vars
  /\ WF_vars(cmd_add_missing_position)
  /\ WF_vars(cmd_orchestrate_again)

\* debate 1 with the positions of all its members, linked to task-1, not decided
ReadyDebate ==
  [id |-> 1, task_id |-> "task-1", options |-> {"fast", "safe"},
   members |-> {"alice", "bob"}, decider |-> "bob", status |-> "open",
   positions |-> <<[member |-> "alice", option |-> "fast", confidence |-> MaxConfidence],
                   [member |-> "bob", option |-> "fast", confidence |-> MaxConfidence]>>,
   decision |-> Null, applied |-> Null]
ReadyBoard == [debates |-> <<ReadyDebate>>, next_id |-> 2]

\* ------------------------------------------- task commands, one per step
\* f"task-{board['next_id']}": the ids in the order add-task assigns them
TaskOrder == <<"task-1", "task-2">>

AddTaskArgs ==
  [owner : TeamMembers \cup {UNASSIGNED_OWNER, "mallory"},
   status : TASK_STATUSES \cup {"bogus"}]

\* cmd_add_task: the status and owner checks, the new task under the next id
add_task(board, a) ==
  IF a.status \notin TASK_STATUSES
    THEN [ok |-> FALSE, tasks |-> tasks, printed |-> printed]
  ELSE IF a.owner # UNASSIGNED_OWNER /\ a.owner \notin TeamMembers
    THEN [ok |-> FALSE, tasks |-> tasks, printed |-> printed]
  ELSE [ok |-> TRUE,
        tasks |-> write_json(tasks,
          [t \in DOMAIN board \cup {TaskOrder[Cardinality(DOMAIN board) + 1]} |->
             IF t \in DOMAIN board THEN board[t]
             ELSE [owner |-> a.owner, status |-> a.status, notes |-> <<>>]]),
        printed |-> "added"]

\* --status, --owner and --note of update-task; "none" is an option left out
UpdateArgs ==
  [task : TaskIds \cup {MissingTaskId},
   status : {"none", "completed", "bogus"},
   owner : {"none", UNASSIGNED_OWNER, "mallory"} \cup TeamMembers,
   note : BOOLEAN]

\* cmd_update_task: the status and owner checks, find_task, the new fields
update_task(board, a) ==
  IF a.status # "none" /\ a.status \notin TASK_STATUSES
    THEN [ok |-> FALSE, tasks |-> tasks, printed |-> printed]
  ELSE IF a.owner # "none" /\ a.owner # UNASSIGNED_OWNER /\ a.owner \notin TeamMembers
    THEN [ok |-> FALSE, tasks |-> tasks, printed |-> printed]
  ELSE IF a.task \notin DOMAIN board
    THEN [ok |-> FALSE, tasks |-> tasks, printed |-> printed]
  ELSE [ok |-> TRUE,
        tasks |-> write_json(tasks,
          [board EXCEPT ![a.task] =
             [owner |-> IF a.owner # "none" THEN a.owner ELSE @.owner,
              status |-> IF a.status # "none" THEN a.status ELSE @.status,
              notes |-> IF a.note
                          THEN Append(@.notes, [debate |-> 0, option |-> "none"])
                          ELSE @.notes]]),
        printed |-> "updated"]

\* the team after add-task and a debate on the task with all positions
InitTasks ==
  /\ now = 0
  /\ lock = NoLock
  /\ alive = [p \in Procs \cup {Dead} |-> p # Dead]
  /\ pc = [p \in Procs |-> "idle"]
  /\ start = [p \in Procs |-> 0]
  /\ observed = [p \in Procs |-> "none"]
  /\ cmd = [p \in Procs |-> NoCmd]
  /\ loaded = [p \in Procs |-> NoBoard]
  /\ tasks = [t \in {TaskOrder[1]} |-> NewTask]
  /\ crashes = 0
  /\ ranBody = {}
  /\ debateBoard = ReadyBoard
  /\ messages = NoMessages
  /\ printed = "none"
  /\ disk = StoredDisk
  /\ handle = [p \in Procs |-> NoFile]
  /\ team = StoredTeam

cmd_add_task ==
  /\ Cardinality(DOMAIN tasks) < Len(TaskOrder)
  /\ \E a \in AddTaskArgs :
       \E r \in {add_task(load_task_board(tasks), a)} :
         /\ tasks' = r.tasks
         /\ printed' = r.printed
         /\ UNCHANGED <<debateBoard, messages, lockVars, fileVars>>

cmd_update_task ==
  \E a \in UpdateArgs :
    /\ a.note /\ a.task \in DOMAIN tasks => Len(tasks[a.task].notes) < MaxNotes
    /\ \E r \in {update_task(load_task_board(tasks), a)} :
         /\ tasks' = r.tasks
         /\ printed' = r.printed
         /\ UNCHANGED <<debateBoard, messages, lockVars, fileVars>>

\* decide-debate --apply with every status and owner map
cmd_decide_apply ==
  \E a \in {x \in DecideArgs : x.apply} :
    \E r \in {decide_debate(load_debate_board(debateBoard), a)} :
      /\ \A t \in DOMAIN r.tasks : Len(r.tasks[t].notes) <= MaxNotes
      /\ debateBoard' = r.board
      /\ tasks' = r.tasks
      /\ messages' = r.messages
      /\ printed' = r.printed
      /\ UNCHANGED <<lockVars, fileVars>>

NextTasks ==
  \/ cmd_add_task
  \/ cmd_claim
  \/ cmd_update_task
  \/ cmd_decide_apply

SpecTasks == InitTasks /\ [][NextTasks]_vars

\* ------------------------------------------------------ init, one per step
\* --members, --goal and --reset of init
InitArgs ==
  [members : {<<>>, <<"alice", "bob">>, <<"bob", "alice">>, <<"alice", "alice">>},
   goal : {"g1", "g2"},
   reset : BOOLEAN]

\* team.json as found: not there, there but not usable, or as init wrote it
TeamStates ==
  {[state |-> "absent", members |-> <<>>, goal |-> "none"],
   [state |-> "corrupted", members |-> <<>>, goal |-> "none"],
   StoredTeam}

init_always(a) ==
  IF a.members = <<>> \/ Cardinality(Range(a.members)) # Len(a.members)
    THEN [ok |-> FALSE, team |-> team, tasks |-> tasks, board |-> debateBoard,
          messages |-> messages, printed |-> printed]
  ELSE [ok |-> TRUE,
        team |-> [state |-> "usable", members |-> a.members, goal |-> a.goal],
        tasks |-> write_json(tasks, NoBoard),
        board |-> write_json(debateBoard, [debates |-> <<>>, next_id |-> 1]),
        messages |-> NoMessages,
        printed |-> "initialized"]

\* cmd_init: the members check, the return on a usable team without --reset,
\* else the state files removed and written anew
init(a) ==
  IF a.members = <<>> \/ Cardinality(Range(a.members)) # Len(a.members)
    THEN [ok |-> FALSE, team |-> team, tasks |-> tasks, board |-> debateBoard,
          messages |-> messages, printed |-> printed]
  ELSE IF team.state = "usable" /\ ~a.reset
    THEN [ok |-> TRUE, team |-> team, tasks |-> tasks, board |-> debateBoard,
          messages |-> messages, printed |-> "exists"]
  ELSE [ok |-> TRUE,
        team |-> [state |-> "usable", members |-> a.members, goal |-> a.goal],
        tasks |-> write_json(tasks, NoBoard),
        board |-> write_json(debateBoard, [debates |-> <<>>, next_id |-> 1]),
        messages |-> NoMessages,
        printed |-> "initialized"]

InitTeam ==
  /\ now = 0
  /\ lock = NoLock
  /\ alive = [p \in Procs \cup {Dead} |-> p # Dead]
  /\ pc = [p \in Procs |-> "idle"]
  /\ start = [p \in Procs |-> 0]
  /\ observed = [p \in Procs |-> "none"]
  /\ cmd = [p \in Procs |-> NoCmd]
  /\ loaded = [p \in Procs |-> NoBoard]
  /\ tasks = [t \in TaskIds |-> NewTask]
  /\ crashes = 0
  /\ ranBody = {}
  /\ debateBoard = [debates |-> <<>>, next_id |-> 1]
  /\ messages = NoMessages
  /\ printed = "none"
  /\ disk = StoredDisk
  /\ handle = [p \in Procs |-> NoFile]
  /\ team \in TeamStates

cmd_init ==
  \E a \in InitArgs :
    \E r \in {init(a)} :
      /\ team' = r.team
      /\ tasks' = r.tasks
      /\ debateBoard' = r.board
      /\ messages' = r.messages
      /\ printed' = r.printed
      /\ UNCHANGED <<lockVars, disk, handle>>

\* require_team / load_team_members: the other commands need a usable team.json
NextTeam ==
  \/ cmd_init
  \/ team.state = "usable" /\ cmd_add_task
  \/ team.state = "usable" /\ cmd_claim
  \/ team.state = "usable" /\ cmd_start_debate

SpecTeam == InitTeam /\ [][NextTeam]_vars

\* ------------------------------- debate commands of concurrent processes
\* the command lines: orchestrate-debate and decide-debate --apply on debate 1,
\* (one of them with a status that is no task status), and start-debate --notify
RaceCommands ==
  {[name |-> "orchestrate-debate", args |-> a] :
     a \in {x \in OrchestrateArgs :
              /\ x.debate_id = 1 /\ ~x.send_reminders /\ x.owner_map = <<>>}}
  \cup
  {[name |-> "decide-debate", args |-> a] :
     a \in {x \in DecideArgs :
              /\ x.apply /\ ~x.require_all /\ x.decision = "none"
              /\ x.owner_map = <<>> /\ x.status_on_apply = "in_progress"}}
  \cup
  {[name |-> "start-debate", args |-> a] :
     a \in {x \in StartArgs :
              /\ x.notify /\ x.task_id = "none" /\ x.decider = "bob"
              /\ x.options = <<"fast", "safe">> /\ x.members = <<"bob", "alice">>}}

InitRace ==
  /\ now = 0
  /\ lock \in {NoLock} \cup LeftoverLocks
  /\ alive = [p \in Procs \cup {Dead} |-> p # Dead]
  /\ pc = [p \in Procs |-> "idle"]
  /\ start = [p \in Procs |-> 0]
  /\ observed = [p \in Procs |-> "none"]
  /\ cmd = [p \in Procs |-> NoCmd]
  /\ loaded = [p \in Procs |-> NoBoard]
  /\ tasks = [t \in TaskIds |-> NewTask]
  /\ crashes = 0
  /\ ranBody = {}
  /\ debateBoard = ReadyBoard
  /\ messages = NoMessages
  /\ printed = "none"
  /\ disk = StoredDisk
  /\ handle = [p \in Procs |-> NoFile]
  /\ team = StoredTeam

\* main: a debate command enters team_state_lock; start = time.monotonic()
StartCommand(p) ==
  /\ pc[p] = "idle"
  /\ \E c \in RaceCommands : cmd' = [cmd EXCEPT ![p] = c]
  /\ start' = [start EXCEPT ![p] = now]
  /\ pc' = [pc EXCEPT ![p] = "open"]
  /\ UNCHANGED <<now, lock, alive, observed, loaded, tasks, crashes, ranBody, debateBoard, messages, printed, disk, handle, team>>

\* the command body: board = load_debate_board(team_name)
LoadBoard(p) ==
  /\ pc[p] = "load"
  /\ loaded' = [loaded EXCEPT ![p] = load_debate_board(debateBoard)]
  /\ pc' = [pc EXCEPT ![p] = "run"]
  /\ UNCHANGED <<now, lock, alive, start, observed, cmd, tasks, crashes, ranBody, debateBoard, messages, printed, disk, handle, team>>

\* what the command computes from the board it loaded
run_command(board, c) ==
  IF c.name = "orchestrate-debate" THEN orchestrate_debate(board, c.args)
  ELSE decide_debate(board, c.args)

\* cmd_start_debate: the checks, then create_debate appends the debate to the
\* board it loaded and writes debates.json
CreateDebate(p) ==
  /\ pc[p] = "run"
  /\ cmd[p].name = "start-debate"
  /\ \E r \in {start_debate(loaded[p], cmd[p].args)} :
       IF ~r.ok
         THEN /\ pc' = [pc EXCEPT ![p] = "release_err"]
              /\ UNCHANGED <<loaded, debateBoard>>
         ELSE /\ debateBoard' = r.board
              /\ loaded' = [loaded EXCEPT ![p] = r.board]
              /\ pc' = [pc EXCEPT ![p] =
                   IF cmd[p].args.notify THEN "notify" ELSE "release_ok"]
  /\ UNCHANGED <<now, lock, alive, start, observed, cmd, tasks, crashes, ranBody, messages, printed, disk, handle, team>>

\* cmd_start_debate: append_jsonl of the notice to each member
Notify(p) ==
  /\ pc[p] = "notify"
  /\ messages' = append_messages(messages, "direct",
                                 Cardinality(Range(cmd[p].args.members)))
  /\ pc' = [pc EXCEPT ![p] = "release_ok"]
  /\ UNCHANGED <<now, lock, alive, start, observed, cmd, loaded, tasks, crashes, ranBody, debateBoard, printed, disk, handle, team>>

\* cmd_orchestrate_debate / cmd_decide_debate up to the write of tasks.json in
\* apply_decision_to_task: the checks and the decision on the board in memory,
\* load_task_board, the task update and write_json(task_file)
ApplyTask(p) ==
  /\ pc[p] = "run"
  /\ cmd[p].name # "start-debate"
  /\ \E r \in {run_command(loaded[p], cmd[p])} :
       IF ~r.ok
         THEN /\ pc' = [pc EXCEPT ![p] = "release_err"]
              /\ UNCHANGED <<loaded, tasks>>
       ELSE IF r.board = loaded[p]
         THEN /\ pc' = [pc EXCEPT ![p] = "release_ok"]
              /\ UNCHANGED <<loaded, tasks>>
       ELSE /\ tasks' = r.tasks
            /\ loaded' = [loaded EXCEPT ![p] = r.board]
            /\ pc' = [pc EXCEPT ![p] =
                 IF r.messages = messages THEN "persist" ELSE "broadcast"]
  /\ UNCHANGED <<now, lock, alive, start, observed, cmd, crashes, ranBody, debateBoard, messages, printed, disk, handle, team>>

\* apply_decision_to_task: append_jsonl of the apply broadcast
Broadcast(p) ==
  /\ pc[p] = "broadcast"
  /\ messages' = append_messages(messages, "broadcast", 1)
  /\ pc' = [pc EXCEPT ![p] = "persist"]
  /\ UNCHANGED <<now, lock, alive, start, observed, cmd, loaded, tasks, crashes, ranBody, debateBoard, printed, disk, handle, team>>

\* cmd_orchestrate_debate / cmd_decide_debate: write_json(debate_file, board)
\* of the board in memory
Persist(p) ==
  /\ pc[p] = "persist"
  /\ debateBoard' = write_json(debateBoard, loaded[p])
  /\ pc' = [pc EXCEPT ![p] = "release_ok"]
  /\ UNCHANGED <<now, lock, alive, start, observed, cmd, loaded, tasks, crashes, ranBody, messages, printed, disk, handle, team>>

\* append_jsonl / write_text_file: an OSError of the call ends the command in
\* SystemExit
IoError(p) ==
  /\ pc[p] \in {"notify", "broadcast", "persist"}
  /\ pc' = [pc EXCEPT ![p] = "release_err"]
  /\ UNCHANGED <<now, lock, alive, start, observed, cmd, loaded, tasks, crashes, ranBody, debateBoard, messages, printed, disk, handle, team>>

StepRace(p) ==
  \/ TryCreate(p)
  \/ ReclaimStat(p)
  \/ ReclaimProbe(p)
  \/ ReclaimRestat(p)
  \/ ReclaimUnlink(p)
  \/ WaitCheck(p)
  \/ WriteMarker(p)
  \/ LoadBoard(p)
  \/ CreateDebate(p)
  \/ Notify(p)
  \/ ApplyTask(p)
  \/ Broadcast(p)
  \/ Persist(p)
  \/ IoError(p)
  \/ Release(p)

NextRace ==
  \/ \E p \in Procs : StartCommand(p)
  \/ \E p \in Procs : StepRace(p)
  \/ Tick

SpecRace == InitRace /\ [][NextRace]_vars

\* ------------------------------------------- write_json, one system call per step
\* a command reaches write_json(path, payload) with its own payload
StartWrite(p) ==
  /\ pc[p] = "idle"
  /\ pc' = [pc EXCEPT ![p] = "mktemp"]
  /\ UNCHANGED <<now, lock, alive, start, observed, cmd, loaded, tasks, crashes, ranBody, debateBoard, messages, printed, disk, handle, team>>

\* write_text_file: tempfile.NamedTemporaryFile(dir=path.parent, delete=False),
\* a new empty file under a name of its own
NamedTemporaryFile(p) ==
  /\ pc[p] = "mktemp"
  /\ disk' = [disk EXCEPT !.temp[p] = p, !.bytes[p] = <<>>]
  /\ handle' = [handle EXCEPT ![p] = p]
  /\ pc' = [pc EXCEPT ![p] = "write"]
  /\ UNCHANGED <<now, lock, alive, start, observed, cmd, loaded, tasks, crashes, ranBody, debateBoard, messages, printed, team>>

\* write_text_file: handle.write(content); handle.flush(), one write call
HandleWrite(p) ==
  /\ pc[p] = "write"
  /\ disk' = [disk EXCEPT !.bytes[handle[p]] = Append(@, p)]
  /\ pc' = [pc EXCEPT ![p] =
       IF Len(disk.bytes[handle[p]]) + 1 = MaxChunks THEN "fsync" ELSE "write"]
  /\ UNCHANGED <<now, lock, alive, start, observed, cmd, loaded, tasks, crashes, ranBody, debateBoard, messages, printed, handle, team>>

\* write_text_file: os.fsync(handle.fileno()); temp_path = Path(handle.name);
\* the with block closes the handle
Fsync(p) ==
  /\ pc[p] = "fsync"
  /\ handle' = [handle EXCEPT ![p] = NoFile]
  /\ pc' = [pc EXCEPT ![p] = "replace"]
  /\ UNCHANGED <<now, lock, alive, start, observed, cmd, loaded, tasks, crashes, ranBody, debateBoard, messages, printed, disk, team>>

replace_ready_unflushed(p) == pc[p] \in {"write", "fsync", "replace"}

\* write_text_file: os.replace comes after the with block
replace_ready(p) == pc[p] = "replace"

\* write_text_file: os.replace(temp_path, path); the name of the board file
\* leads to the temporary file, whose own name is gone
OsReplace(p) ==
  /\ replace_ready(p)
  /\ disk' = [disk EXCEPT !.path = disk.temp[p], !.temp[p] = NoFile]
  /\ handle' = [handle EXCEPT ![p] = NoFile]
  /\ pc' = [pc EXCEPT ![p] = "done"]
  /\ UNCHANGED <<now, lock, alive, start, observed, cmd, loaded, tasks, crashes, ranBody, debateBoard, messages, printed, team>>

\* write_text_file: an OSError of write, flush, fsync or os.replace ends in
\* SystemExit; finally unlinks the temporary file only when temp_path was set
WriteError(p) ==
  /\ pc[p] \in {"write", "fsync", "replace"}
  /\ disk' = IF pc[p] = "replace" THEN [disk EXCEPT !.temp[p] = NoFile] ELSE disk
  /\ handle' = [handle EXCEPT ![p] = NoFile]
  /\ pc' = [pc EXCEPT ![p] = "failed"]
  /\ UNCHANGED <<now, lock, alive, start, observed, cmd, loaded, tasks, crashes, ranBody, debateBoard, messages, printed, team>>

\* the writer is killed at any step of write_json: its files stay as they are
CrashWrite(p) ==
  /\ pc[p] \in {"mktemp", "write", "fsync", "replace"}
  /\ crashes < MaxCrashes
  /\ crashes' = crashes + 1
  /\ alive' = [alive EXCEPT ![p] = FALSE]
  /\ handle' = [handle EXCEPT ![p] = NoFile]
  /\ pc' = [pc EXCEPT ![p] = "crashed"]
  /\ UNCHANGED <<now, lock, start, observed, cmd, loaded, tasks, ranBody, debateBoard, messages, printed, disk, team>>

\* a command reaches load_json(path)
StartRead(p) ==
  /\ pc[p] = "idle"
  /\ pc' = [pc EXCEPT ![p] = "open_read"]
  /\ UNCHANGED <<now, lock, alive, start, observed, cmd, loaded, tasks, crashes, ranBody, debateBoard, messages, printed, disk, handle, team>>

\* load_json: path.read_text opens the file the name leads to
ReadOpen(p) ==
  /\ pc[p] = "open_read"
  /\ handle' = [handle EXCEPT ![p] = disk.path]
  /\ pc' = [pc EXCEPT ![p] = "read"]
  /\ UNCHANGED <<now, lock, alive, start, observed, cmd, loaded, tasks, crashes, ranBody, debateBoard, messages, printed, disk, team>>

\* load_json: path.read_text reads the open file to its end
ReadText(p) ==
  /\ pc[p] = "read"
  /\ loaded' = [loaded EXCEPT ![p] = disk.bytes[handle[p]]]
  /\ handle' = [handle EXCEPT ![p] = NoFile]
  /\ pc' = [pc EXCEPT ![p] = "loaded"]
  /\ UNCHANGED <<now, lock, alive, start, observed, cmd, tasks, crashes, ranBody, debateBoard, messages, printed, disk, team>>

NextWrite ==
  \/ \E p \in Procs : StartWrite(p)
  \/ \E p \in Procs : NamedTemporaryFile(p)
  \/ \E p \in Procs : HandleWrite(p)
  \/ \E p \in Procs : Fsync(p)
  \/ \E p \in Procs : OsReplace(p)
  \/ \E p \in Procs : WriteError(p)
  \/ \E p \in Procs : CrashWrite(p)
  \/ \E p \in Procs : StartRead(p)
  \/ \E p \in Procs : ReadOpen(p)
  \/ \E p \in Procs : ReadText(p)

SpecWrite == InitDebate /\ [][NextWrite]_vars

\* ------------------------------------------------------------ properties
InBody(p) == pc[p] \in {"load", "store"}

\* a reclaim_stale_lock call of p removes the marker in this step
ReclaimRemoves(p) == pc[p] = "unlink" /\ lock # NoLock /\ pc'[p] = "open"

Finished(p) == pc[p] \in {"done", "failed"}

\* C1: in every reachable state at most one process executes a guarded
\* command body of the team
C1_MutualExclusion == Cardinality({p \in Procs : InBody(p)}) <= 1

\* C2: a reclaiming process never deletes a marker other than the one it
\* observed at its staleness check
C2_ReclaimDeletesObserved ==
  [][\A p \in Procs : ReclaimRemoves(p) => lock.ino = observed[p]]_vars

\* C3: reclaim_stale_lock never removes a marker whose age is at most the
\* staleness threshold
C3_YoungMarkerKept ==
  [][\A p \in Procs : ReclaimRemoves(p) => Age(lock) > LockStaleTicks]_vars

\* C4: a marker left by a dead holder that is older than the threshold, with
\* a process attempting acquisition, leads to a live process holding the lock
DeadStaleAttempt ==
  /\ lock # NoLock
  /\ ~alive[lock.ino]
  /\ Age(lock) > LockStaleTicks
  /\ \E p \in Procs : pc[p] = "open"
LiveHeld == lock # NoLock /\ alive[lock.ino]
C4_CrashRecovery == DeadStaleAttempt ~> LiveHeld
C4_Witness ==
  \E p \in Procs :
    /\ pc[p] = "load"
    /\ observed[p] # "none"
    /\ ~alive[observed[p]]
    /\ lock # NoLock /\ lock.ino = p

\* C5: a waiter whose wait budget has elapsed at the budget test fails with
\* the timeout, changes neither the boards, the logs nor the marker, and its
\* guarded body never runs
C5_TimeoutHardFailure ==
  [][\A p \in Procs :
       /\ (pc[p] = "check" /\ (now - start[p]) >= LockWaitTicks /\ pc'[p] # pc[p])
            => /\ pc'[p] = "timeout"
               /\ <<tasks, debateBoard, messages, lock>>' =
                    <<tasks, debateBoard, messages, lock>>
       /\ pc[p] = "timeout" => (pc'[p] = "timeout" /\ p \notin ranBody)]_vars
C5_Witness ==
  \E p \in Procs :
    /\ pc[p] = "timeout"
    /\ lock # NoLock /\ lock.pid \in Procs /\ alive[lock.pid]

BothClaimed(p, q) ==
  /\ p # q
  /\ pc[p] = "done" /\ pc[q] = "done"
  /\ cmd[p].task # cmd[q].task
C7_NoLostUpdate ==
  \A p, q \in Procs :
    BothClaimed(p, q) => tasks[cmd[p].task].owner = cmd[p].member

\* C8: two finished claims by different members on the same task leave it
\* owned by one of the two, in_progress
SameTaskClaims(p, q) ==
  /\ p # q
  /\ pc[p] = "done" /\ pc[q] = "done"
  /\ cmd[p].task = cmd[q].task
  /\ cmd[p].member # cmd[q].member
C8_OneOwner ==
  \A p, q \in Procs :
    SameTaskClaims(p, q) =>
      /\ tasks[cmd[p].task].owner \in {cmd[p].member, cmd[q].member}
      /\ tasks[cmd[p].task].status = "in_progress"
C8_Witness == \E p, q \in Procs : SameTaskClaims(p, q)

StatusRank(status) ==
  CASE status = "open" -> 1 [] status = "decided" -> 2 [] status = "applied" -> 3

DebateKept(i) == i \in DOMAIN debateBoard'.debates

\* C9: no debate command moves the persisted status of a debate to an earlier
\* one of open, decided, applied, and an applied debate stays applied
C9_StatusForward ==
  [][\A i \in DOMAIN debateBoard.debates :
       /\ DebateKept(i)
       /\ StatusRank(debateBoard'.debates[i].status)
            >= StatusRank(debateBoard.debates[i].status)
       /\ (debateBoard.debates[i].status = "applied"
             => debateBoard'.debates[i].status = "applied")]_vars

\* a decide or orchestrate command has run on an applied debate that went
\* through positions and a decision
C9_Witness ==
  /\ printed = "already_applied"
  /\ \E i \in DOMAIN debateBoard.debates :
       /\ debateBoard.debates[i].status = "applied"
       /\ debateBoard.debates[i].positions # <<>>
       /\ debateBoard.debates[i].decision # Null

\* C10: once a debate has a decision record no debate command changes its
\* option, method, scores, rationale or decider, and the option applied to the
\* task is the recorded one
C10_DecisionImmutable ==
  [][\A i \in DOMAIN debateBoard.debates :
       debateBoard.debates[i].decision # Null
         => /\ DebateKept(i)
            /\ debateBoard'.debates[i].decision = debateBoard.debates[i].decision
            /\ (debateBoard'.debates[i].applied # Null
                  => debateBoard'.debates[i].applied.option
                       = debateBoard.debates[i].decision.option)]_vars

\* a later decide command has applied a recorded manual decision that differs
\* from what the positions would give
C10_Witness ==
  /\ printed = "applied_existing"
  /\ \E i \in DOMAIN debateBoard.debates :
       /\ debateBoard.debates[i].decision # Null
       /\ debateBoard.debates[i].decision.method = "manual"
       /\ choose_decision(debateBoard.debates[i]).ok
       /\ choose_decision(debateBoard.debates[i]).option
            # debateBoard.debates[i].decision.option
       /\ debateBoard.debates[i].applied # Null
       /\ debateBoard.debates[i].applied.option
            = debateBoard.debates[i].decision.option

\* the debates on the board
Debates == Range(debateBoard.debates)

HasVoted(debate, m) == \E i \in DOMAIN debate.positions : debate.positions[i].member = m

\* the decide commands that name a manual option other than the recorded one
Conflicting(debate) ==
  {a \in DecideArgs : /\ a.debate_id = debate.id
                      /\ debate.decision # Null
                      /\ a.decision \notin {"none", debate.decision.option}}

\* the command ends in an error and writes nothing
Rejected(r) ==
  /\ ~r.ok
  /\ r.board = debateBoard
  /\ r.tasks = tasks
  /\ r.messages = messages

\* C11: decide with a manual option other than the recorded one, on a debate
\* that has a decision (decided or applied), fails and leaves the debate
\* unchanged
C11_ConflictingDecisionRejected ==
  \A debate \in Debates :
    \A a \in Conflicting(debate) :
      \A r \in {decide_debate(load_debate_board(debateBoard), a)} : Rejected(r)


\* the position a member appended last
LastVote(debate, m) ==
  debate.positions[CHOOSE i \in DOMAIN debate.positions :
                     /\ debate.positions[i].member = m
                     /\ \A j \in DOMAIN debate.positions :
                          j > i => debate.positions[j].member # m]

\* the members whose last position names the option
Voters(debate, o) ==
  {m \in debate.members : HasVoted(debate, m) /\ LastVote(debate, m).option = o}

Orderings(S) ==
  {f \in [1..Cardinality(S) -> S] : \A i, j \in DOMAIN f : i # j => f[i] # f[j]}

RECURSIVE SumInOrder(_, _, _)
SumInOrder(debate, f, k) ==
  IF k = 0 THEN 0
  ELSE float_add(SumInOrder(debate, f, k - 1), LastVote(debate, f[k]).confidence)

\* the floating-point sums of the voters' confidences, in any order of adding
ConfidenceSums(debate, o) ==
  {SumInOrder(debate, f, Len(f)) : f \in Orderings(Voters(debate, o))}

\* the options with the maximum score
Tied(debate, scores) ==
  {o \in debate.options : \A o2 \in debate.options : scores[o2] <= scores[o]}

ScoringHolds(debate, r) ==
  /\ \A o \in debate.options : r.scores[o] \in ConfidenceSums(debate, o)
  /\ r.ok <=> \E o \in debate.options : r.scores[o] > 0
  /\ r.ok => /\ r.option \in Tied(debate, r.scores)
             /\ (Cardinality(Tied(debate, r.scores)) = 1 <=> r.method = "score")
  /\ (debate.decision # Null /\ debate.decision.method # "manual")
       => /\ r.ok
          /\ debate.decision.option = r.option
          /\ debate.decision.method = r.method
          /\ debate.decision.scores = r.scores

\* C12: the score of each option is the sum of the confidences of the members
\* whose latest position names it, an option that alone has the maximum score
\* is chosen with method score, and the chosen option has the maximum score
C12_AutomaticScoring ==
  \A debate \in Debates :
    \A r \in {choose_decision(debate)} : ScoringHolds(debate, r)

\* an automatic decision by score, won by the sum of two members' confidences
\* against another option with a positive score
C12_Witness ==
  \E debate \in Debates :
    /\ debate.decision # Null
    /\ debate.decision.method = "score"
    /\ Cardinality(Voters(debate, debate.decision.option)) >= 2
    /\ \E o \in debate.options \ {debate.decision.option} :
         debate.decision.scores[o] > 0

\* the tied option that comes first in the sorted order of the option strings
SmallestOption(options) ==
  OptionOrder[CHOOSE i \in DOMAIN OptionOrder :
                /\ OptionOrder[i] \in options
                /\ \A j \in 1..(i - 1) : OptionOrder[j] \notin options]

TieBreakHolds(debate, r) ==
  (r.ok /\ Cardinality(Tied(debate, r.scores)) >= 2)
    => IF /\ HasVoted(debate, debate.decider)
          /\ LastVote(debate, debate.decider).option \in Tied(debate, r.scores)
         THEN /\ r.option = LastVote(debate, debate.decider).option
              /\ r.method = "tie_decider"
         ELSE /\ r.option = SmallestOption(Tied(debate, r.scores))
              /\ r.method = "tie_lexical"

\* C13: when several options share the maximum score the decision is the
\* decider's latest option if it is among them (tie_decider), else the
\* smallest tied option (tie_lexical)
C13_TieBreak ==
  \A debate \in Debates :
    \A r \in {choose_decision(debate)} : TieBreakHolds(debate, r)

\* a recorded tie_lexical decision although the decider has voted, for an
\* option that is not among the tied ones
C13_Witness ==
  \E debate \in Debates :
    /\ debate.decision # Null
    /\ debate.decision.method = "tie_lexical"
    /\ HasVoted(debate, debate.decider)
    /\ LastVote(debate, debate.decider).option
         \notin Tied(debate, debate.decision.scores)

\* positions with two neighbours of different members exchanged
Swapped(ps) ==
  {[i \in DOMAIN ps |-> IF i = k THEN ps[k + 1] ELSE IF i = k + 1 THEN ps[k] ELSE ps[i]] :
     k \in {j \in 1..(Len(ps) - 1) : ps[j].member # ps[j + 1].member}}

\* positions without one that the same member has overridden later
Dropped(ps) ==
  {[i \in 1..(Len(ps) - 1) |-> IF i < k THEN ps[i] ELSE ps[i + 1]] :
     k \in {j \in DOMAIN ps : \E l \in DOMAIN ps : l > j /\ ps[l].member = ps[j].member}}

\* C14: the automatic decision (option, method, scores) of a debate is the
\* same for every debate with the same latest position of each member,
\* whatever the order of the members' positions and the overridden ones
C14_DecisionDeterminism ==
  \A debate \in Debates :
    \A ps \in Swapped(debate.positions) \cup Dropped(debate.positions) :
      choose_decision([debate EXCEPT !.positions = ps]) = choose_decision(debate)

\* an open debate with no position, or whose latest positions all have
\* confidence zero
NothingToScore(debate) ==
  /\ debate.status = "open"
  /\ debate.decision = Null
  /\ \A m \in debate.members :
       HasVoted(debate, m) => LastVote(debate, m).confidence = 0

\* the decide commands without a manual option
AutomaticDecides(debate) ==
  {a \in DecideArgs : a.debate_id = debate.id /\ a.decision = "none"}

Orchestrations(debate) == {a \in OrchestrateArgs : a.debate_id = debate.id}

\* the debate is on the board as it was, open and without decision
StillOpen(board, debate) ==
  \E i \in DOMAIN board.debates :
    /\ board.debates[i] = debate
    /\ board.debates[i].status = "open"
    /\ board.debates[i].decision = Null

\* C15: an automatic decide (decide without manual option, or orchestrate
\* once nobody is missing) fails when there is no position or every score is
\* zero, and the debate stays open without a decision
C15_NothingToDecideFails ==
  \A debate \in {d \in Debates : NothingToScore(d)} :
    /\ \A a \in AutomaticDecides(debate) :
         \A r \in {decide_debate(load_debate_board(debateBoard), a)} :
           Rejected(r) /\ StillOpen(r.board, debate)
    /\ \A a \in Orchestrations(debate) :
         \A r \in {orchestrate_debate(load_debate_board(debateBoard), a)} :
           /\ StillOpen(r.board, debate)
           /\ r.tasks = tasks
           /\ Missing(debate) = {} => Rejected(r)

\* every member has a position, all of confidence zero, and an automatic
\* decide with a rationale and the debate's decider fails
C15_Witness ==
  \E debate \in Debates :
    /\ NothingToScore(debate)
    /\ debate.members # {}
    /\ Missing(debate) = {}
    /\ \E a \in AutomaticDecides(debate) :
         /\ a.rationale # "none"
         /\ a.decider = "none"
         /\ ~a.require_all
         /\ ~decide_debate(load_debate_board(debateBoard), a).ok

\* the decide commands with --require-all-positions
StrictDecides(debate) ==
  {a \in DecideArgs : a.debate_id = debate.id /\ a.require_all}

\* the debates in which some member has no position
Incomplete == {d \in Debates : Missing(d) # {}}

Untouched(r) ==
  /\ r.board = debateBoard
  /\ r.tasks = tasks
  /\ r.messages = messages

\* C16: decide with --require-all-positions on a debate in which a member has
\* no position fails and leaves the debate unchanged
C16_StrictModeFails ==
  \A debate \in Incomplete :
    \A a \in StrictDecides(debate) :
      \A r \in {decide_debate(load_debate_board(debateBoard), a)} : Rejected(r)

\* C16 amended: decide with --require-all-positions on a debate in which a
\* member has no position records no decision, applies nothing and leaves
\* the debate unchanged; it fails unless the debate is already applied
C16_StrictMode ==
  \A debate \in Incomplete :
    \A a \in StrictDecides(debate) :
      \A r \in {decide_debate(load_debate_board(debateBoard), a)} :
        /\ Untouched(r)
        /\ debate.status # "applied" => ~r.ok

\* an open debate with a position of positive confidence and a missing
\* member: the strict decides, manual and automatic, with and without apply,
\* all fail, and each succeeds without --require-all-positions
C16_Witness ==
  \E debate \in Incomplete :
    /\ debate.status = "open"
    /\ \E m \in debate.members :
         HasVoted(debate, m) /\ LastVote(debate, m).confidence > 0
    /\ \E a \in StrictDecides(debate) : a.decision = "none" /\ a.apply
    /\ \E a \in StrictDecides(debate) : a.decision # "none" /\ ~a.apply
    /\ \A a \in StrictDecides(debate) :
         /\ ~decide_debate(load_debate_board(debateBoard), a).ok
         /\ decide_debate(load_debate_board(debateBoard),
                          [a EXCEPT !.require_all = FALSE]).ok

\* the decide commands with --apply
ApplyingDecides(debate) ==
  {a \in DecideArgs : a.debate_id = debate.id /\ a.apply}

\* the command succeeds and writes nothing
NoOp(r) == r.ok /\ Untouched(r)

\* C17: on an applied debate every decide with --apply and every orchestrate
\* is a no-op: the tasks, the debate with its applied record and the message
\* log stay as they are
C17_ApplyIdempotent ==
  \A debate \in {d \in Debates : d.status = "applied"} :
    /\ \A a \in ApplyingDecides(debate) :
         \A r \in {decide_debate(load_debate_board(debateBoard), a)} : NoOp(r)
    /\ \A a \in Orchestrations(debate) :
         \A r \in {orchestrate_debate(load_debate_board(debateBoard), a)} : NoOp(r)

\* a further command has run on an applied debate whose task carries the
\* note of the apply
C17_Witness ==
  \E debate \in Debates :
    /\ debate.status = "applied"
    /\ debate.applied # Null
    /\ printed = "already_applied"
    /\ debate.task_id \in DOMAIN tasks
    /\ Len(tasks[debate.task_id].notes) = 1
    /\ tasks[debate.task_id].status = debate.applied.status

\* the status the board holds for the debate
StatusOn(board, debate) ==
  board.debates[CHOOSE i \in DOMAIN board.debates :
                  board.debates[i].id = debate.id].status

\* C18: one orchestrate call moves the persisted status of a debate by at
\* most one step forward
C18_OneStepPerCall ==
  \A debate \in Debates :
    \A a \in Orchestrations(debate) :
      \A r \in {orchestrate_debate(load_debate_board(debateBoard), a)} :
        StatusRank(StatusOn(r.board, debate)) - StatusRank(debate.status) <= 1

\* C20: orchestrate called twice in a row with the same arguments leaves the
\* debate board that one call leaves
C20_OrchestrateIdempotent ==
  \A a \in {x \in OrchestrateArgs : x.debate_id = 0 => debateBoard.next_id \in DebateIds} :
    \A r \in {orchestrate_debate(load_debate_board(debateBoard), a)} :
      orchestrate_debate(load_debate_board(r.board), a).board = r.board

\* C19: an open debate on which orchestrate is invoked again and again while
\* the missing members submit positions is eventually applied
C19_OrchestrationConverges ==
  (\E debate \in Debates : debate.status = "open")
    ~> (\E debate \in Debates : debate.status = "applied")

\* the position the command would append
NewPosition(a) ==
  [member |-> a.member, option |-> a.option, confidence |-> a.confidence]

\* the debate is open, the member and the option are the debate's, the
\* confidence is within [0, 1]
PositionAccepted(debate, a) ==
  /\ debate.status = "open"
  /\ a.member \in debate.members
  /\ a.option \in debate.options
  /\ a.confidence >= 0
  /\ a.confidence <= MaxConfidence

\* the board with the position appended to the debate and nothing else changed
PositionAppended(board, debate, a) ==
  /\ Len(board.debates) = Len(debateBoard.debates)
  /\ \A i \in DOMAIN board.debates :
       board.debates[i] =
         IF debateBoard.debates[i].id = debate.id
           THEN [debate EXCEPT !.positions = Append(@, NewPosition(a))]
           ELSE debateBoard.debates[i]

\* C25: add-position appends the position when the debate is open, the
\* member and option belong to it and the confidence is within [0, 1]; in
\* every other case it fails and the debate board is unchanged
C25_AddPositionGuards ==
  \A a \in PositionArgs :
    \A r \in {add_position(load_debate_board(debateBoard), a)} :
      IF \E debate \in Debates : debate.id = a.debate_id /\ PositionAccepted(debate, a)
        THEN /\ r.ok
             /\ \A debate \in Debates :
                  debate.id = a.debate_id => PositionAppended(r.board, debate, a)
        ELSE ~r.ok /\ r.board = debateBoard

\* a decided or applied debate that has a position, on which a position of
\* one of its members for one of its options is rejected
C25_Witness ==
  \E debate \in Debates :
    /\ debate.status \in {"decided", "applied"}
    /\ debate.positions # <<>>
    /\ \E a \in PositionArgs :
         /\ a.debate_id = debate.id
         /\ a.member \in debate.members
         /\ a.option \in debate.options
         /\ a.confidence \in Confidences
         /\ ~add_position(load_debate_board(debateBoard), a).ok

\* C27: a debate for which no position was ever submitted is never applied,
\* and its linked task carries no note of an apply
C27_NoApplyWithoutPositions ==
  \A debate \in {d \in Debates : d.positions = <<>>} :
    /\ debate.status # "applied"
    /\ debate.applied = Null
    /\ debate.task_id \in DOMAIN tasks =>
         \A n \in Range(tasks[debate.task_id].notes) : n.debate # debate.id

\* C26: claim on a completed task fails and leaves the task board unchanged;
\* claim by a team member on any other existing task makes the member its
\* owner and the status in_progress, whoever owned it, and changes no other
\* task
C26_ClaimContract ==
  \A a \in {x \in ClaimArgs : x.task \in DOMAIN tasks /\ x.member \in TeamMembers} :
    \A r \in {claim(load_task_board(tasks), a)} :
      IF tasks[a.task].status = "completed"
        THEN ~r.ok /\ r.tasks = tasks
        ELSE /\ r.ok
             /\ r.tasks[a.task].owner = a.member
             /\ r.tasks[a.task].status = "in_progress"
             /\ \A t \in DOMAIN tasks \ {a.task} : r.tasks[t] = tasks[t]

\* a claim has taken a task, next to a completed task owned by the other
\* member, on which a claim fails
C26_Witness ==
  /\ printed = "claimed"
  /\ \E t \in DOMAIN tasks : tasks[t].status = "in_progress"
  /\ \E t \in DOMAIN tasks : \E a \in ClaimArgs :
       /\ a.task = t
       /\ a.member \in TeamMembers \ {tasks[t].owner}
       /\ tasks[t].status = "completed"
       /\ ~claim(load_task_board(tasks), a).ok

\* the ids of the debates on the stored board
StoredIds == {debateBoard.debates[i].id : i \in DOMAIN debateBoard.debates}

LargestId(ids) == IF ids = {} THEN 0 ELSE CHOOSE x \in ids : \A y \in ids : y <= x

\* C24: when the stored next_id is absent or not greater than the largest
\* existing id, the loaded board's next_id is the largest existing id + 1,
\* and the debate created next gets an id no stored debate has
C24_NextIdReconstructed ==
  debateBoard.next_id <= LargestId(StoredIds) =>
    /\ load_debate_board(debateBoard).next_id = LargestId(StoredIds) + 1
    /\ \A a \in StartArgs :
         \A r \in {new_debate(load_debate_board(debateBoard), a)} :
           r.ok => r.id \notin StoredIds

\* the debates that are not applied and lack the position of a member
Waiting == {d \in Incomplete : d.status # "applied"}

\* the message log with one direct message more for each of the members
Reminded(log, members) == [log EXCEPT !.direct = @ + Cardinality(members)]

\* C29: orchestrate on a debate that is not applied and lacks the position of
\* a member records no decision, applies nothing and leaves the debate board
\* and the task board unchanged; it appends at most the reminders, one for
\* each missing member
C29_WaitingStep ==
  \A debate \in Waiting :
    \A a \in Orchestrations(debate) :
      \A r \in {orchestrate_debate(load_debate_board(debateBoard), a)} :
        /\ r.board = debateBoard
        /\ r.tasks = tasks
        /\ r.messages = IF a.send_reminders /\ r.ok
                          THEN Reminded(messages, Missing(debate))
                          ELSE messages

\* an orchestrate call has waited on an open debate with a positive position
\* and one missing member, and sent the one reminder
C29_Witness ==
  \E debate \in Waiting :
    /\ printed = "waiting"
    /\ debate.status = "open"
    /\ Cardinality(Missing(debate)) = 1
    /\ \E m \in debate.members :
         HasVoted(debate, m) /\ LastVote(debate, m).confidence > 0
    /\ messages = Reminded(NoMessages, Missing(debate))

\* the debates with a decision and without linked task
Unlinked == {d \in Debates : d.task_id = "none" /\ d.decision # Null}

\* C30: apply on a debate without linked task modifies no task, appends no
\* message, writes no applied record and leaves the status decided, for
\* decide with --apply and for orchestrate
C30_ApplyWithoutTask ==
  \A debate \in Unlinked :
    /\ debate.status = "decided"
    /\ debate.applied = Null
    /\ \A a \in ApplyingDecides(debate) :
         \A r \in {decide_debate(load_debate_board(debateBoard), a)} :
           r.board = debateBoard /\ r.tasks = tasks /\ r.messages = messages
    /\ Missing(debate) = {} =>
         \A a \in Orchestrations(debate) :
           \A r \in {orchestrate_debate(load_debate_board(debateBoard), a)} :
             r.board = debateBoard /\ r.tasks = tasks /\ r.messages = messages

\* decide with --apply has run on a decided debate without linked task, no
\* task has a note and no message was appended
C30_Witness ==
  \E debate \in Unlinked :
    /\ printed = "applied_existing"
    /\ debate.status = "decided"
    /\ messages = NoMessages
    /\ \A t \in DOMAIN tasks : tasks[t] = NewTask

\* ------------------------------------------------------- C22: atomic write
\* the bytes are the whole document of one version
Complete(bytes) == \E v \in {"old"} \cup Procs : bytes = Document(v)

\* the writer of the version has renamed its temporary file
Committed(v) == v = "old" \/ pc[v] = "done"

\* C22: the board file always holds a whole document, and every reader that
\* has loaded it got the whole previous document or the whole document of a
\* writer that reached the rename; the writers may fail or be killed at any
\* step of write_json
C22_AtomicWrite ==
  /\ Complete(disk.bytes[disk.path])
  /\ Committed(disk.bytes[disk.path][1])
  /\ \A p \in Procs :
       pc[p] = "loaded" => Complete(loaded[p]) /\ Committed(loaded[p][1])

\* a reader has loaded the board after the writer was killed in the middle of
\* the write to the temporary file
C22_Witness ==
  \E p, q \in Procs :
    /\ pc[p] = "loaded"
    /\ pc[q] = "crashed"
    /\ disk.temp[q] # NoFile
    /\ Len(disk.bytes[q]) \in 1..(MaxChunks - 1)
    /\ Complete(loaded[p])

\* ------------------------------------------- C28: one apply under concurrency
\* the notes debate 1 left on its linked task
ApplyNotes == tasks[ReadyDebate.task_id].notes

\* no command ended, or is about to end, in an error
NoFailure == \A p \in Procs : pc[p] \notin {"release_err", "failed"}

\* C28: when processes run orchestrate-debate or decide-debate --apply on the
\* same ready debate at the same time and none of them fails, the linked task
\* gains at most one debate note and at most one apply broadcast is appended
C28_AppliedOnce ==
  NoFailure => Len(ApplyNotes) <= 1 /\ messages.broadcast <= 1

\* ------------------------------------------------ C21: failure atomicity
\* C21: when a command has ended in an error and no other command has run its
\* body, tasks.json and debates.json are as they were before the command and
\* the marker of the command is gone
C21_FailureAtomicity ==
  \A p \in Procs :
    pc[p] = "failed" /\ ranBody = {p} =>
      /\ tasks = [t \in TaskIds |-> NewTask]
      /\ debateBoard = ReadyBoard
      /\ lock.ino # p

\* ------------------------------------------------------ C23: monotonic ids
\* the process has created a debate
Created(p) ==
  /\ pc[p] \in {"notify", "release_ok", "release_err", "done", "failed"}
  /\ cmd[p].name = "start-debate"
  /\ Len(loaded[p].debates) > Len(ReadyBoard.debates)

\* the identifier create_debate gave to the debate of the process
AssignedId(p) == loaded[p].debates[Len(loaded[p].debates)].id

\* C23: the identifiers of the debates created by the processes are pairwise
\* distinct and differ from the identifiers of the existing debates, and the
\* identifiers on the board increase in creation order
C23_MonotonicIds ==
  /\ \A p \in Procs : \A q \in Procs \ {p} :
       Created(p) /\ Created(q) => AssignedId(p) # AssignedId(q)
  /\ \A p \in Procs : Created(p) => AssignedId(p) # ReadyDebate.id
  /\ \A i, j \in DOMAIN debateBoard.debates :
       i < j => debateBoard.debates[i].id < debateBoard.debates[j].id

\* ------------------------------------------------- C37, C38: live markers
\* the process that created the marker is running and has not released it
LiveOwner ==
  /\ lock # NoLock
  /\ alive[lock.ino]
  /\ pc[lock.ino] \in {"write", "load", "store", "release_ok", "release_err"}

\* C37: a reclaim never removes a marker whose owning process is still
\* running, whatever the age of the marker, the window between the creation
\* of the empty marker and the write of the pid included
C37_LiveMarkerKept ==
  [][\A p \in Procs : ReclaimRemoves(p) => ~LiveOwner]_vars

\* the release step of p unlinks a marker in this step
ReleaseRemoves(p) ==
  /\ pc[p] \in {"release_ok", "release_err"}
  /\ pc'[p] \in {"done", "failed"}
  /\ lock # NoLock

\* C38: the release step of a process unlinks only the marker that the
\* process itself created
C38_ReleaseOwnMarker ==
  [][\A p \in Procs : ReleaseRemoves(p) => lock.ino = p]_vars

\* ------------------------------------------------ C31: effects of an apply
\* the decided debates with a linked task
Appliable == {d \in Debates : d.status = "decided" /\ d.task_id # "none"}

\* the record the board holds for the debate
RecordOn(board, debate) ==
  board.debates[CHOOSE i \in DOMAIN board.debates : board.debates[i].id = debate.id]

\* r is the outcome of a successful apply of the debate's decision with the
\* given status and owner map
ApplyEffects(debate, status_on_apply, owner_map, r) ==
  /\ r.tasks[debate.task_id].status = status_on_apply
  /\ r.tasks[debate.task_id].owner =
       IF debate.decision.option \in DOMAIN owner_map
         THEN owner_map[debate.decision.option]
         ELSE tasks[debate.task_id].owner
  /\ Len(r.tasks[debate.task_id].notes) = Len(tasks[debate.task_id].notes) + 1
  /\ \A t \in DOMAIN tasks \ {debate.task_id} : r.tasks[t] = tasks[t]
  /\ RecordOn(r.board, debate).status = "applied"
  /\ RecordOn(r.board, debate).decision = debate.decision
  /\ RecordOn(r.board, debate).applied # Null
  /\ RecordOn(r.board, debate).applied.option = debate.decision.option
  /\ RecordOn(r.board, debate).applied.status = r.tasks[debate.task_id].status
  /\ RecordOn(r.board, debate).applied.owner = r.tasks[debate.task_id].owner
  /\ r.messages.broadcast = messages.broadcast + 1
  /\ r.messages.direct = messages.direct

\* C31: a successful apply on a decided debate with a linked task, by decide
\* with --apply or by orchestrate, sets the task's status to the chosen apply
\* status and its owner to the owner mapped to the decided option (else leaves
\* the owner), appends one note to the task, marks the debate applied with a
\* record of the decided option and the task's new status and owner, and
\* appends one broadcast
C31_ApplyEffects ==
  \A debate \in Appliable :
    /\ \A a \in ApplyingDecides(debate) :
         \A r \in {decide_debate(load_debate_board(debateBoard), a)} :
           r.ok => ApplyEffects(debate, a.status_on_apply, a.owner_map, r)
    /\ \A a \in Orchestrations(debate) :
         \A r \in {orchestrate_debate(load_debate_board(debateBoard), a)} :
           r.ok /\ r.printed # "waiting" =>
             ApplyEffects(debate, a.status_on_apply, a.owner_map, r)

\* a decided debate was applied with an owner map that names its option: the
\* task is completed and owned by the mapped member, with one note, and one
\* broadcast was appended
C31_Witness ==
  \E debate \in Debates :
    /\ debate.status = "applied"
    /\ debate.applied # Null
    /\ debate.applied.option = "fast"
    /\ debate.applied.owner = "bob"
    /\ printed = "applied_existing"
    /\ tasks[debate.task_id].owner = "bob"
    /\ tasks[debate.task_id].status = "completed"
    /\ Len(tasks[debate.task_id].notes) = 1
    /\ messages.broadcast = 1

\* ------------------------------------------- C36: consistent debate records
\* the status of the record agrees with its decision and applied records
Consistent(d) ==
  /\ d.status \in {"open", "decided", "applied"}
  /\ d.status = "open" <=> d.decision = Null
  /\ d.status = "applied" <=> d.applied # Null
  /\ d.status = "applied" => d.task_id # "none" /\ d.decision # Null
  /\ d.decision # Null => d.decision.option \in d.options
  /\ d.applied # Null => d.applied.option \in d.options

\* C36: every debate record on the board is open exactly when it has no
\* decision and applied exactly when it has an applied record; an applied
\* debate has a linked task and a decision; the options of the decision and
\* of the applied record are options of the debate
C36_ConsistentRecords == \A d \in Debates : Consistent(d)

\* the board holds a debate that was decided by hand and then applied
C36_Witness ==
  \E d \in Debates :
    /\ d.status = "applied"
    /\ d.decision # Null
    /\ d.decision.method = "manual"
    /\ d.applied # Null
    /\ d.applied.option = d.decision.option

\* ------------------------------------------------ C33: well-formed debates
\* two options, two members that are all on the team, a decider among the
\* members, a linked task that is on the task board
WellFormed(d) ==
  /\ Cardinality(d.options) >= 2
  /\ Cardinality(d.members) >= 2
  /\ d.members \subseteq TeamMembers
  /\ d.decider \in d.members
  /\ d.task_id # "none" => d.task_id \in DOMAIN tasks

\* the creation request breaks one of the rules; the decider "lead" is the
\* default of a request that names none
IllFormed(a) ==
  \/ Cardinality(Range(a.options)) < 2
  \/ Cardinality(Range(a.members)) < 2
  \/ ~(Range(a.members) \subseteq TeamMembers)
  \/ a.decider # "lead" /\ a.decider \notin Range(a.members)
  \/ a.task_id # "none" /\ a.task_id \notin DOMAIN tasks

\* C33: every debate on the board has at least two options, at least two
\* members that are all team members, a decider among its members and, if it
\* is linked, a task of the task board; a start-debate or an orchestrate
\* creation that breaks one of these fails and adds no debate
C33_WellFormedDebates ==
  /\ \A d \in Debates : WellFormed(d)
  /\ \A a \in {x \in StartArgs : IllFormed(x)} :
       \A r \in {start_debate(load_debate_board(debateBoard), a)} :
         ~r.ok /\ r.board = debateBoard
  /\ \A a \in {x \in OrchestrateArgs : x.debate_id = 0 /\ IllFormed(x)} :
       \A r \in {orchestrate_debate(load_debate_board(debateBoard), a)} :
         ~r.ok /\ r.board = debateBoard

\* start-debate has created a debate linked to a task of the board
C33_Witness ==
  \E d \in Debates :
    /\ printed = "started"
    /\ d.task_id = "task-1"
    /\ d.status = "open"
    /\ d.decider = "bob"

\* ----------------------------------------------------- C34: task owners
\* C34: after any sequence of add-task, claim, update-task and debate apply
\* with any owner map, the owner of every task is a member of the team or
\* the sentinel unassigned
C34_OwnerRegistered ==
  \A t \in DOMAIN tasks : tasks[t].owner \in TeamMembers \cup {UNASSIGNED_OWNER}

\* the debate was applied with an owner map and gave its task to a member,
\* and a second task was added and has a member as its owner
C34_Witness ==
  /\ \E d \in Debates : d.applied # Null /\ d.applied.owner = "bob"
  /\ DOMAIN tasks = TaskIds
  /\ tasks["task-1"].owner = "bob"
  /\ tasks["task-2"].owner = "alice"

\* ------------------------------------------------- C35: init without reset
\* C35: init without --reset on a team whose team.json is there and usable
\* leaves the team record, the task board, the debate board with its counter
\* and the message log as they are, whatever members and goal it names
C35_InitKeepsTeam ==
  team.state = "usable" =>
    \A a \in {x \in InitArgs : ~x.reset} :
      \A r \in {init(a)} :
        /\ r.team = team
        /\ r.tasks = tasks
        /\ r.board = debateBoard
        /\ r.messages = messages

\* init has returned without change on a team with a claimed task, a debate
\* and messages
C35_Witness ==
  /\ team.state = "usable"
  /\ printed = "exists"
  /\ \E t \in DOMAIN tasks : tasks[t].owner # UNASSIGNED_OWNER
  /\ debateBoard.debates # <<>>
  /\ messages # NoMessages

\* ------------------------------------------------- C32: monitor events
\* C32: when a decide-debate or an orchestrate-debate command has appended a
\* debate.decided event to the monitor log, the debate board it leaves holds
\* a decision for that debate
C32_DecidedEventPersisted ==
  \A debate \in Debates :
    /\ \A a \in {x \in DecideArgs : x.debate_id = debate.id} :
         decide_logs_decided(load_debate_board(debateBoard), a) =>
           \A r \in {decide_debate(load_debate_board(debateBoard), a)} :
             RecordOn(r.board, debate).decision # Null
    /\ \A a \in Orchestrations(debate) :
         orchestrate_logs_decided(load_debate_board(debateBoard), a) =>
           \A r \in {orchestrate_debate(load_debate_board(debateBoard), a)} :
             RecordOn(r.board, debate).decision # Null

\* ------------------------------------------- C40: one apply note per debate
\* the positions of the apply notes the debate left on the task
NotesOf(task_id, debate_id) ==
  {i \in DOMAIN tasks[task_id].notes : tasks[task_id].notes[i].debate = debate_id}

\* C40: in every reachable state a task carries at most one apply note of each
\* debate linked to it, whether or not an apply attempt has failed between the
\* write of the task board and the write of the debate board and was retried
C40_OneNotePerDebate ==
  \A debate \in Debates :
    debate.task_id # "none" =>
      Cardinality(NotesOf(debate.task_id, debate.id)) <= 1

\* ------------------------------------------------- C39: no stuck debates
\* C39: a debate that is linked to a task and has status decided, whether the
\* decision was automatic or a manual one taken before every member voted, is
\* eventually applied when orchestrate-debate is invoked again and again
C39_DecidedReachesApplied ==
  (\E debate \in Debates : debate.status = "decided" /\ debate.task_id # "none")
    ~> (\E debate \in Debates : debate.status = "applied")
====
